---- MODULE Spec2Model ----
(***************************************************************************)
(* Header chain storage, gap discovery and the header sync ingester of     *)
(* pathfinder:                                                             *)
(*   crates/storage/src/connection/block.rs                                *)
(*   crates/pathfinder/src/sync/p2p/headers.rs                             *)
(*                                                                         *)
(* The database is a set of tables; every storage operation runs inside a  *)
(* transaction that either commits its writes or is rolled back.  Pure     *)
(* operators take the database as a record `db` and return the database    *)
(* they leave behind together with their result; the actions commit or     *)
(* discard that database exactly as the calling code does.                 *)
(*                                                                         *)
(* A signed header is carried as its header: the signature value and the   *)
(* peer id are passed through unchanged by every operation modelled here,  *)
(* so block_signatures holds the block numbers that have a signature row.  *)
(***************************************************************************)
EXTENDS Integers, Sequences, FiniteSets, TLC

\* ------------------------------------------------------------ bounds
MaxBlock == 2
MaxHash == 2
MaxVersion == 0
MaxBatch == 1
MaxStream == 3

\* ------------------------------------------------------------ constants
\* BlockNumber::GENESIS
GENESIS == 0
\* BlockHash::ZERO, which is also BlockHash::default()
ZERO == 0

BlockNumbers == 0..MaxBlock
BlockHashes == 0..MaxHash
StarknetVersions == 0..MaxVersion

\* pathfinder_common::BlockHeader, the fields the header chain reads
BlockHeader ==
    [number : BlockNumbers, hash : BlockHashes, parent_hash : BlockHashes,
     starknet_version : StarknetVersions]

\* crate::BlockId
BlockId_Latest == [tag |-> "Latest"]
BlockId_Number(n) == [tag |-> "Number", number |-> n]
BlockId_Hash(h) == [tag |-> "Hash", hash |-> h]

\* Option<T>
None == [kind |-> "None"]
Some(v) == [kind |-> "Some", v |-> v]

VARIABLES
    block_headers,           \* rows [number, hash, version_id]
    canonical_blocks,        \* rows [number, hash]
    starknet_versions,       \* interning table: id (position) -> version
    block_signatures,        \* block numbers that have a signature row
    starknet_transactions,   \* block hashes that have transaction rows
    contract_roots,          \* block numbers with a row, likewise below
    class_commitment_leaves,
    contract_state_hashes,
    class_roots,
    storage_roots,
    trie_nodes,              \* block numbers whose state update wrote trie node rows
    l1_l2_head,              \* the L1-L2 pointer: None or Some(block number)
    last,                    \* the last storage call: its arguments and result
    expected,                \* check_continuity: (number, hash, poisoned)
    outputs                  \* what check_continuity returned, call by call

tables ==
    <<block_headers, canonical_blocks, starknet_versions, block_signatures,
      starknet_transactions, contract_roots, class_commitment_leaves,
      contract_state_hashes, class_roots, storage_roots, trie_nodes,
      l1_l2_head>>
stream == <<expected, outputs>>
vars == <<tables, last, stream>>

\* The database as one value.
Db ==
    [block_headers |-> block_headers,
     canonical_blocks |-> canonical_blocks,
     starknet_versions |-> starknet_versions,
     block_signatures |-> block_signatures,
     starknet_transactions |-> starknet_transactions,
     contract_roots |-> contract_roots,
     class_commitment_leaves |-> class_commitment_leaves,
     contract_state_hashes |-> contract_state_hashes,
     class_roots |-> class_roots,
     storage_roots |-> storage_roots,
     trie_nodes |-> trie_nodes,
     l1_l2_head |-> l1_l2_head]

\* Storage::in_memory(): every table empty.
EmptyDb ==
    [block_headers |-> {},
     canonical_blocks |-> {},
     starknet_versions |-> <<>>,
     block_signatures |-> {},
     starknet_transactions |-> {},
     contract_roots |-> {},
     class_commitment_leaves |-> {},
     contract_state_hashes |-> {},
     class_roots |-> {},
     storage_roots |-> {},
     trie_nodes |-> {},
     l1_l2_head |-> None]

\* tx.commit(): the transaction's database becomes the stored one.
Commit(db) ==
    /\ block_headers' = db.block_headers
    /\ canonical_blocks' = db.canonical_blocks
    /\ starknet_versions' = db.starknet_versions
    /\ block_signatures' = db.block_signatures
    /\ starknet_transactions' = db.starknet_transactions
    /\ contract_roots' = db.contract_roots
    /\ class_commitment_leaves' = db.class_commitment_leaves
    /\ contract_state_hashes' = db.contract_state_hashes
    /\ class_roots' = db.class_roots
    /\ storage_roots' = db.storage_roots
    /\ trie_nodes' = db.trie_nodes
    /\ l1_l2_head' = db.l1_l2_head

\* The largest member of a non-empty set of numbers (ORDER BY .. DESC LIMIT 1).
MaxOf(S) == CHOOSE x \in S : \A y \in S : y <= x

\* ------------------------------------------------------------ block.rs

\* intern_starknet_version: the id of the version's row, inserted when absent
\* (AUTOINCREMENT: max(id) + 1; no row of this table is ever deleted).
intern_starknet_version(db, version) ==
    IF \E i \in 1..Len(db.starknet_versions) : db.starknet_versions[i] = version
    THEN [db |-> db,
          id |-> CHOOSE i \in 1..Len(db.starknet_versions) :
                    db.starknet_versions[i] = version]
    ELSE [db |-> [db EXCEPT !.starknet_versions = Append(@, version)],
          id |-> Len(db.starknet_versions) + 1]

\* insert_block_header over a block_headers table whose hash column is not
\* unique.
insert_block_header_any_hash(db, header) ==
    LET iv == intern_starknet_version(db, header.starknet_version)
        d1 == iv.db
        row == [number |-> header.number, hash |-> header.hash,
                version_id |-> iv.id]
        d2 == [d1 EXCEPT !.block_headers = @ \cup {row}]
        d3 == [d2 EXCEPT !.canonical_blocks =
                  @ \cup {[number |-> header.number, hash |-> header.hash]}]
    IN  IF \E r \in d1.block_headers : r.number = header.number
        THEN [ok |-> FALSE, db |-> d1]
        ELSE IF \E c \in d2.canonical_blocks : c.number = header.number
        THEN [ok |-> FALSE, db |-> d2]
        ELSE [ok |-> TRUE, db |-> d3]

\* insert_block_header: INSERT INTO block_headers (number is the primary key,
\* hash is unique, parent_hash is not a column), then INSERT INTO
\* canonical_blocks (number is the primary key). `ok` is FALSE when a
\* statement fails; `db` is what the statements before it left behind.
insert_block_header(db, header) ==
    LET iv == intern_starknet_version(db, header.starknet_version)
        d1 == iv.db
        row == [number |-> header.number, hash |-> header.hash,
                version_id |-> iv.id]
        d2 == [d1 EXCEPT !.block_headers = @ \cup {row}]
        d3 == [d2 EXCEPT !.canonical_blocks =
                  @ \cup {[number |-> header.number, hash |-> header.hash]}]
    IN  IF \E r \in d1.block_headers :
              r.number = header.number \/ r.hash = header.hash
        THEN [ok |-> FALSE, db |-> d1]
        ELSE IF \E c \in d2.canonical_blocks : c.number = header.number
        THEN [ok |-> FALSE, db |-> d2]
        ELSE [ok |-> TRUE, db |-> d3]

\* next_ancestor: SELECT number,hash FROM block_headers WHERE number < ?
\* ORDER BY number DESC LIMIT 1
next_ancestor(db, target) ==
    LET rows == {r \in db.block_headers : r.number < target}
    IN  IF rows = {} THEN None
        ELSE LET r == CHOOSE r \in rows : r.number = MaxOf({x.number : x \in rows})
             IN  Some([number |-> r.number, hash |-> r.hash])

\* next_ancestor_without_parent with the bound written `number < ?`.
next_ancestor_without_parent_strict(db, target) ==
    LET rows == {t1 \in db.block_headers :
                    /\ t1.number < target
                    /\ ~ \E t2 \in db.block_headers : t1.number - 1 = t2.number}
    IN  IF rows = {} THEN None
        ELSE LET r == CHOOSE r \in rows : r.number = MaxOf({x.number : x \in rows})
             IN  Some([number |-> r.number, hash |-> r.hash])

\* next_ancestor_without_parent: SELECT number,hash FROM block_headers t1
\* WHERE number <= ? AND NOT EXISTS (SELECT * FROM block_headers t2
\* WHERE t1.number - 1 = t2.number) ORDER BY number DESC LIMIT 1
next_ancestor_without_parent(db, target) ==
    LET rows == {t1 \in db.block_headers :
                    /\ t1.number <= target
                    /\ ~ \E t2 \in db.block_headers : t1.number - 1 = t2.number}
    IN  IF rows = {} THEN None
        ELSE LET r == CHOOSE r \in rows : r.number = MaxOf({x.number : x \in rows})
             IN  Some([number |-> r.number, hash |-> r.hash])

\* purge_block without its DELETE FROM block_headers.
purge_block_keeps_header(db, block) ==
    LET hashes == {c.hash : c \in {c \in db.canonical_blocks : c.number = block}}
    IN  [db EXCEPT !.starknet_transactions = @ \ hashes,
                   !.canonical_blocks = {c \in @ : c.number # block},
                   !.contract_roots = @ \ {block},
                   !.class_commitment_leaves = @ \ {block},
                   !.contract_state_hashes = @ \ {block},
                   !.class_roots = @ \ {block},
                   !.storage_roots = @ \ {block}]

\* purge_block that also deletes the trie node rows the block's state update
\* wrote.
purge_block_with_trie_nodes(db, block) ==
    [purge_block_keeps_header(db, block) EXCEPT
        !.block_headers = {r \in @ : r.number # block},
        !.trie_nodes = @ \ {block}]

\* purge_block: the eight DELETE statements, in the order of the code; none
\* of them names a trie node table.
purge_block(db, block) ==
    LET hashes == {c.hash : c \in {c \in db.canonical_blocks : c.number = block}}
        d1 == [db EXCEPT !.starknet_transactions = @ \ hashes]
        d2 == [d1 EXCEPT !.canonical_blocks = {c \in @ : c.number # block}]
        d3 == [d2 EXCEPT !.block_headers = {r \in @ : r.number # block}]
        d4 == [d3 EXCEPT !.contract_roots = @ \ {block}]
        d5 == [d4 EXCEPT !.class_commitment_leaves = @ \ {block}]
        d6 == [d5 EXCEPT !.contract_state_hashes = @ \ {block}]
        d7 == [d6 EXCEPT !.class_roots = @ \ {block}]
        d8 == [d7 EXCEPT !.storage_roots = @ \ {block}]
    IN  d8

\* block_id: Option<(BlockNumber, BlockHash)> read from canonical_blocks
block_id(db, block) ==
    LET rows == IF block.tag = "Latest"
                THEN {c \in db.canonical_blocks :
                        c.number = MaxOf({x.number : x \in db.canonical_blocks})}
                ELSE IF block.tag = "Number"
                THEN {c \in db.canonical_blocks : c.number = block.number}
                ELSE {c \in db.canonical_blocks : c.hash = block.hash}
    IN  IF rows = {} THEN None
        ELSE LET c == CHOOSE c \in rows : TRUE
             IN  Some([number |-> c.number, hash |-> c.hash])

\* block_exists: SELECT EXISTS(SELECT 1 FROM canonical_blocks [WHERE ..])
block_exists(db, block) ==
    IF block.tag = "Latest" THEN db.canonical_blocks # {}
    ELSE IF block.tag = "Number"
    THEN \E c \in db.canonical_blocks : c.number = block.number
    ELSE \E c \in db.canonical_blocks : c.hash = block.hash

\* block_header that never fills parent_hash in: every header reads back with
\* the ZERO parent hash of parse_row.
block_header_no_parent(db, block) ==
    LET rows == IF block.tag = "Latest"
                THEN {r \in db.block_headers :
                        r.number = MaxOf({x.number : x \in db.block_headers})}
                ELSE IF block.tag = "Number"
                THEN {r \in db.block_headers : r.number = block.number}
                ELSE {r \in db.block_headers : r.hash = block.hash}
    IN  IF rows = {} THEN None
        ELSE LET row == CHOOSE r \in rows : TRUE
             IN  Some([number |-> row.number,
                       hash |-> row.hash,
                       starknet_version |-> db.starknet_versions[row.version_id],
                       parent_hash |-> ZERO])

\* block_header: the row of block_headers LEFT JOIN starknet_versions, with
\* parent_hash filled in by a second query for the row numbered number - 1.
\* That query is a query_row without optional(): no row is an error.
block_header(db, block) ==
    LET rows == IF block.tag = "Latest"
                THEN {r \in db.block_headers :
                        r.number = MaxOf({x.number : x \in db.block_headers})}
                ELSE IF block.tag = "Number"
                THEN {r \in db.block_headers : r.number = block.number}
                ELSE {r \in db.block_headers : r.hash = block.hash}
    IN  IF rows = {} THEN None
        ELSE
          LET row == CHOOSE r \in rows : TRUE
              header == [number |-> row.number,
                         hash |-> row.hash,
                         starknet_version |-> db.starknet_versions[row.version_id],
                         parent_hash |-> ZERO]
              parents == {r \in db.block_headers : r.number = header.number - 1}
          IN  IF header.number # GENESIS
              THEN IF parents = {} THEN [kind |-> "Err"]
                   ELSE Some([header EXCEPT !.parent_hash =
                                (CHOOSE r \in parents : TRUE).hash])
              ELSE Some(header)

\* insert_signature(block_number, signature): one row of block_signatures per
\* block number.
insert_signature(db, block_number) ==
    IF block_number \in db.block_signatures
    THEN [ok |-> FALSE, db |-> db]
    ELSE [ok |-> TRUE, db |-> [db EXCEPT !.block_signatures = @ \cup {block_number}]]

\* The rows that the state update and the transactions of a stored block add:
\* one row per index table keyed by the block number, the block's
\* transactions keyed by its canonical hash, and the trie node rows that the
\* root indexes point to.
insert_block_data(db, block) ==
    LET hashes == {c.hash : c \in {c \in db.canonical_blocks : c.number = block}}
    IN  [db EXCEPT !.starknet_transactions = @ \cup hashes,
                   !.contract_roots = @ \cup {block},
                   !.class_commitment_leaves = @ \cup {block},
                   !.contract_state_hashes = @ \cup {block},
                   !.class_roots = @ \cup {block},
                   !.storage_roots = @ \cup {block},
                   !.trie_nodes = @ \cup {block}]

\* ------------------------------------------------------------ headers.rs

\* next_gap(storage, head, head_hash) -> Option<HeaderGap>
next_gap(db, head, head_hash) ==
    LET head_exists == block_exists(db, BlockId_Number(head))
        found == next_ancestor_without_parent(db, head)
        HeaderGap(gap_head) ==
            LET ancestor == next_ancestor(db, gap_head.number)
                \* unwrap_or_default(): (BlockNumber(0), BlockHash::ZERO)
                gap_tail == IF ancestor.kind = "None"
                            THEN [number |-> 0, hash |-> ZERO]
                            ELSE ancestor.v
            IN  Some([head |-> gap_head.number,
                      head_hash |-> gap_head.hash,
                      tail |-> gap_tail.number + 1,
                      tail_parent_hash |-> gap_tail.hash])
    IN  IF head_exists
        THEN IF found.kind = "None" THEN None ELSE HeaderGap(found.v)
        ELSE HeaderGap([number |-> head, hash |-> head_hash])

\* check_continuity without the expected.2 = true of the mismatch branch.
check_continuity_never_poisons(exp, input) ==
    LET is_correct == input.number = exp.number /\ input.hash = exp.hash
        updated == [exp EXCEPT !.number = input.number, !.hash = input.hash]
    IN  IF exp.poisoned
        THEN [expected |-> exp, result |-> None]
        ELSE IF is_correct
        THEN [expected |-> updated,
              result |-> Some([kind |-> "Ok", input |-> input])]
        ELSE [expected |-> updated,
              result |-> Some([kind |-> "Discontinuity", input |-> input])]

\* check_continuity(expected, input): the expectation it leaves and the item
\* it yields (None once poisoned).
check_continuity(exp, input) ==
    LET is_correct == input.number = exp.number /\ input.hash = exp.hash
        updated == [exp EXCEPT !.number = input.number, !.hash = input.hash]
    IN  IF exp.poisoned
        THEN [expected |-> exp, result |-> None]
        ELSE IF is_correct
        THEN [expected |-> updated,
              result |-> Some([kind |-> "Ok", input |-> input])]
        ELSE [expected |-> [updated EXCEPT !.poisoned = TRUE],
              result |-> Some([kind |-> "Discontinuity", input |-> input])]

\* persist's loop with the insert_signature call left out.
RECURSIVE persist_loop_without_signature(_, _)
persist_loop_without_signature(db, signed_headers) ==
    IF signed_headers = <<>> THEN [ok |-> TRUE, db |-> db]
    ELSE LET h == insert_block_header(db, Head(signed_headers))
         IN  IF ~h.ok THEN [ok |-> FALSE, db |-> h.db]
             ELSE persist_loop_without_signature(h.db, Tail(signed_headers))

\* The for loop of persist: insert_block_header then insert_signature for each
\* element, stopping at the first error.
RECURSIVE persist_loop(_, _)
persist_loop(db, signed_headers) ==
    IF signed_headers = <<>> THEN [ok |-> TRUE, db |-> db]
    ELSE LET h == insert_block_header(db, Head(signed_headers))
             sg == insert_signature(h.db, Head(signed_headers).number)
         IN  IF ~h.ok THEN [ok |-> FALSE, db |-> h.db]
             ELSE IF ~sg.ok THEN [ok |-> FALSE, db |-> sg.db]
             ELSE persist_loop(sg.db, Tail(signed_headers))

\* persist returning the vector's first element instead of popping its last.
persist_returns_first(db, signed_headers) ==
    LET r == persist_loop(db, signed_headers)
    IN  IF ~r.ok THEN [result |-> [kind |-> "DatabaseError"], db |-> db]
        ELSE IF signed_headers = <<>>
        THEN [result |-> [kind |-> "Panic"], db |-> r.db]
        ELSE [result |-> [kind |-> "Ok", v |-> signed_headers[1]], db |-> r.db]

\* persist(signed_headers, storage): an error drops the transaction (nothing
\* is stored); otherwise the transaction commits and the vector's last
\* element is popped and returned; pop() of an empty vector panics.
persist(db, signed_headers) ==
    LET r == persist_loop(db, signed_headers)
    IN  IF ~r.ok THEN [result |-> [kind |-> "DatabaseError"], db |-> db]
        ELSE IF signed_headers = <<>>
        THEN [result |-> [kind |-> "Panic"], db |-> r.db]
        ELSE [result |-> [kind |-> "Ok", v |-> signed_headers[Len(signed_headers)]],
              db |-> r.db]

\* ------------------------------------------------------------ actions

Batches == UNION {[1..n -> BlockHeader] : n \in 0..MaxBatch}

\* A transaction that inserts one header and commits; an error unwinds the
\* transaction.
InsertBlockHeader ==
    \E header \in BlockHeader :
        LET r == insert_block_header(Db, header)
        IN  /\ IF r.ok THEN Commit(r.db) ELSE UNCHANGED tables
            /\ last' = IF r.ok
                       THEN [op |-> "insert_block_header", ok |-> TRUE,
                             header |-> header]
                       ELSE [op |-> "insert_block_header", ok |-> FALSE]
            /\ UNCHANGED stream

Persist ==
    \E signed_headers \in Batches :
        LET r == persist(Db, signed_headers)
        IN  /\ Commit(r.db)
            /\ last' = [op |-> "persist", result |-> r.result]
            /\ UNCHANGED stream

\* A transaction that purges one block and commits.
PurgeBlock ==
    \E block \in BlockNumbers :
        /\ Commit(purge_block(Db, block))
        /\ last' = [op |-> "purge_block", block |-> block,
                    purged |-> block_id(Db, BlockId_Number(block))]
        /\ UNCHANGED stream

\* The state update and transactions of a canonical block are stored.
InsertBlockData ==
    \E block \in BlockNumbers :
        /\ block_exists(Db, BlockId_Number(block))
        /\ Commit(insert_block_data(Db, block))
        /\ last' = [op |-> "insert_block_data", block |-> block]
        /\ UNCHANGED stream

NextGap ==
    \E head \in BlockNumbers, head_hash \in BlockHashes :
        /\ last' = [op |-> "next_gap", head |-> head, head_hash |-> head_hash,
                    result |-> next_gap(Db, head, head_hash)]
        /\ UNCHANGED <<tables, stream>>

\* One item of the header stream goes through check_continuity.
CheckContinuity ==
    \E input \in BlockHeader :
        LET r == check_continuity(expected, input)
        IN  /\ Len(outputs) < MaxStream
            /\ expected' = r.expected
            /\ outputs' = Append(outputs, r.result)
            /\ UNCHANGED <<tables, last>>

\* ------------------------------------------------------------ specifications

InitTables ==
    /\ block_headers = EmptyDb.block_headers
    /\ canonical_blocks = EmptyDb.canonical_blocks
    /\ starknet_versions = EmptyDb.starknet_versions
    /\ block_signatures = EmptyDb.block_signatures
    /\ starknet_transactions = EmptyDb.starknet_transactions
    /\ contract_roots = EmptyDb.contract_roots
    /\ class_commitment_leaves = EmptyDb.class_commitment_leaves
    /\ contract_state_hashes = EmptyDb.contract_state_hashes
    /\ class_roots = EmptyDb.class_roots
    /\ storage_roots = EmptyDb.storage_roots
    /\ trie_nodes = EmptyDb.trie_nodes
    /\ l1_l2_head = EmptyDb.l1_l2_head
    /\ last = [op |-> "none"]

\* The header chain storage: an empty database and the storage operations.
Init ==
    /\ InitTables
    /\ expected = [number |-> GENESIS, hash |-> ZERO, poisoned |-> FALSE]
    /\ outputs = <<>>

Next ==
    \/ InsertBlockHeader
    \/ Persist
    \/ PurgeBlock
    \/ InsertBlockData

Spec == Init /\ [][Next]_vars

\* Gap discovery over the header chain: headers are inserted and purged and
\* next_gap reads the chain they leave.
NextGapSearch ==
    \/ InsertBlockHeader
    \/ PurgeBlock
    \/ NextGap

SpecGap == Init /\ [][NextGapSearch]_vars

\* A header stream through scan(check_continuity), from any initial
\* expectation that is not poisoned.
InitStream ==
    /\ InitTables
    /\ expected \in [number : BlockNumbers, hash : BlockHashes, poisoned : {FALSE}]
    /\ outputs = <<>>

NextStream == CheckContinuity

SpecStream == InitStream /\ [][NextStream]_vars

\* ------------------------------------------------------------ properties

\* The block numbers that have a header row.
Stored(n) == \E r \in block_headers : r.number = n
HashOf(n) == (CHOOSE r \in block_headers : r.number = n).hash

\* The items check_continuity let through, in order.
Emitted ==
    SelectSeq(outputs, LAMBDA o : o.kind = "Some" /\ o.v.kind = "Ok")

\* C1 (P6, chain continuity): while the stream is not poisoned, every emitted
\* item after the first has parent_hash = the previous item's hash and
\* number = the previous item's number + 1.
C1_ChainContinuity ==
    ~expected.poisoned =>
        \A i \in 2..Len(Emitted) :
            /\ Emitted[i].v.input.parent_hash = Emitted[i-1].v.input.hash
            /\ Emitted[i].v.input.number = Emitted[i-1].v.input.number + 1

\* C2: when every block number in [0, N] has a stored header, next_gap(N, H)
\* returns None.
C2_CompleteChainReturnsNone ==
    (last.op = "next_gap" /\ \A n \in 0..last.head : Stored(n))
        => last.result = None

\* C3: a returned Gap{tail, head} has no stored header in [tail, head], and
\* tail - 1 is stored unless tail is genesis.
C3_GapIsAbsent ==
    (last.op = "next_gap" /\ last.result.kind = "Some") =>
        LET gap == last.result.v
        IN  /\ \A n \in gap.tail..gap.head : ~Stored(n)
            /\ gap.tail = GENESIS \/ Stored(gap.tail - 1)

\* next_gap returns a gap from every reachable storage state and for every
\* anchor: the case of C4 (a None result) never arises.
NextGapNeverNone ==
    last.op = "next_gap" => last.result.kind = "Some"

\* C5: the tail of a returned gap is m + 1 and tail_parent_hash is hash(m),
\* for m the largest stored number below head; the tail is genesis when no
\* block below head is stored.
C5_TailRule ==
    (last.op = "next_gap" /\ last.result.kind = "Some") =>
        LET gap == last.result.v
            below == {n \in BlockNumbers : n < gap.head /\ Stored(n)}
        IN  IF below = {}
            THEN gap.tail = GENESIS
            ELSE /\ gap.tail = MaxOf(below) + 1
                 /\ gap.tail_parent_hash = HashOf(MaxOf(below))

\* C6 (head rule): when the anchor is not stored the gap's head is the anchor
\* and head_hash the anchor's hash (and, with m the largest stored block below
\* it, tail = m + 1 and tail_parent_hash = hash(m)); when the anchor is stored
\* the head is the largest n <= anchor that is stored while n - 1 is not.
C6_HeadRule ==
    last.op = "next_gap" =>
        LET below == {n \in BlockNumbers : n < last.head /\ Stored(n)}
            starts == {n \in 0..last.head : Stored(n) /\ ~Stored(n - 1)}
        IN  IF ~Stored(last.head)
            THEN /\ last.result.kind = "Some"
                 /\ last.result.v.head = last.head
                 /\ last.result.v.head_hash = last.head_hash
                 /\ below # {} =>
                        /\ last.result.v.tail = MaxOf(below) + 1
                        /\ last.result.v.tail_parent_hash = HashOf(MaxOf(below))
            ELSE /\ last.result.kind = "Some"
                 /\ last.result.v.head = MaxOf(starts)
                 /\ last.result.v.head_hash = HashOf(MaxOf(starts))

\* Blocks 0..m are stored, the anchor above them is not, and next_gap has
\* returned the gap from m + 1 to the anchor (scenario S3).
C6_Witness ==
    /\ last.op = "next_gap"
    /\ Stored(0) /\ ~Stored(1) /\ ~Stored(last.head)
    /\ last.head = 2
    /\ last.result.kind = "Some"
    /\ last.result.v.head = 2
    /\ last.result.v.tail = 1
    /\ last.result.v.tail_parent_hash = HashOf(0)

\* C7 (P4, purge isolation): after purge_block(n) no table holds a row keyed
\* by n: canonical index, headers, the root indexes, class-commitment leaves,
\* contract state hashes, the block's transactions and its signature.
C7_PurgeIsolation ==
    last.op = "purge_block" =>
        /\ ~ \E c \in canonical_blocks : c.number = last.block
        /\ ~ \E r \in block_headers : r.number = last.block
        /\ last.block \notin contract_roots
        /\ last.block \notin class_commitment_leaves
        /\ last.block \notin contract_state_hashes
        /\ last.block \notin class_roots
        /\ last.block \notin storage_roots
        /\ last.purged.kind = "Some" =>
               last.purged.v.hash \notin starknet_transactions
        /\ last.block \notin block_signatures

\* C8 (I4): canonical_blocks and block_headers hold the same block numbers.
C8_CanonicalEqualsHeaders ==
    {c.number : c \in canonical_blocks} = {r.number : r \in block_headers}

\* A persist has failed and was rolled back while headers are stored, and a
\* block that was purged before is absent from both tables.
C8_Witness ==
    /\ last.op = "persist"
    /\ last.result.kind = "DatabaseError"
    /\ block_headers # {}
    /\ \E n \in block_signatures : ~Stored(n)

C10_HeaderRoundTrip ==
    (last.op = "insert_block_header" /\ last.ok) =>
        /\ block_header(Db, BlockId_Number(last.header.number)) = Some(last.header)
        /\ block_header(Db, BlockId_Hash(last.header.hash)) = Some(last.header)

\* ------------------------------------------------------------ persist batches

MaxPersistBatch == 2

\* persist neither reads nor stores parent_hash, so the batches of this
\* specification carry the ZERO parent hash.
PersistHeaders == {h \in BlockHeader : h.parent_hash = ZERO}

PersistBatches == UNION {[1..n -> PersistHeaders] : n \in 0..MaxPersistBatch}

\* One call of persist; the batch, the storage it found and its result are
\* kept for inspection.
PersistBatch ==
    \E signed_headers \in PersistBatches :
        LET r == persist(Db, signed_headers)
        IN  /\ Commit(r.db)
            /\ last' = [op |-> "persist_batch", signed_headers |-> signed_headers,
                        before |-> Db, result |-> r.result]
            /\ UNCHANGED stream

NextPersist ==
    \/ PersistBatch
    \/ PurgeBlock

\* Batches of headers are persisted into a chain that purges also shrink.
SpecPersist == Init /\ [][NextPersist]_vars

HeaderStored(h) ==
    \E row \in block_headers : row.number = h.number /\ row.hash = h.hash

SignatureStored(h) == h.number \in block_signatures

PersistCall == last.op = "persist_batch"

PersistFailed == ~persist_loop(last.before, last.signed_headers).ok

\* C11 as stated: persist(batch) is atomic: when an insert of the batch fails
\* it returns a database error and storage afterwards contains none of the
\* batch's headers or signatures; when it succeeds storage contains every
\* header and signature of the batch.
C11_NothingOfBatchStored ==
    PersistCall =>
        /\ PersistFailed =>
              /\ last.result.kind = "DatabaseError"
              /\ \A i \in DOMAIN last.signed_headers :
                    /\ ~HeaderStored(last.signed_headers[i])
                    /\ ~SignatureStored(last.signed_headers[i])
        /\ last.result.kind = "Ok" =>
              \A i \in DOMAIN last.signed_headers :
                    /\ HeaderStored(last.signed_headers[i])
                    /\ SignatureStored(last.signed_headers[i])

\* C11 amended: persist(batch) is atomic: when an insert of the batch fails it
\* returns a database error and storage afterwards is exactly the storage
\* before the call (a header or signature stored earlier stays stored); when
\* it succeeds storage contains every header and signature of the batch.
C11_PersistAtomic ==
    PersistCall =>
        /\ PersistFailed =>
              /\ last.result.kind = "DatabaseError"
              /\ Db = last.before
        /\ last.result.kind = "Ok" =>
              /\ ~PersistFailed
              /\ \A i \in DOMAIN last.signed_headers :
                    /\ HeaderStored(last.signed_headers[i])
                    /\ SignatureStored(last.signed_headers[i])

\* A batch of two whose first header was insertable and whose second insert
\* failed: the abort dropped the first header again.
C11_Witness ==
    /\ PersistCall
    /\ Len(last.signed_headers) = 2
    /\ last.result.kind = "DatabaseError"
    /\ insert_block_header(last.before, last.signed_headers[1]).ok
    /\ ~HeaderStored(last.signed_headers[1])

\* C12 as stated: persist(batch) on a non-empty batch that commits returns
\* the highest-numbered header of the batch, whatever the order of the headers
\* inside the batch.
C12_ReturnsHighestNumbered ==
    (PersistCall /\ last.result.kind = "Ok") =>
        \A i \in DOMAIN last.signed_headers :
            last.signed_headers[i].number <= last.result.v.number

\* C12 amended: persist(batch) on a non-empty batch that commits returns the
\* last header of the batch, which is the highest-numbered one when the batch
\* is in ascending order of number.
C12_ReturnsLastOfBatch ==
    (PersistCall /\ last.result.kind = "Ok") =>
        LET signed_headers == last.signed_headers
            n == Len(signed_headers)
            ascending == \A i \in 1..(n - 1) :
                            signed_headers[i].number < signed_headers[i + 1].number
        IN  /\ n > 0
            /\ last.result.v = signed_headers[n]
            /\ ascending => \A i \in 1..n :
                               signed_headers[i].number <= last.result.v.number

\* A committed batch of two in descending order: the lower header came back.
C12_Witness ==
    /\ PersistCall
    /\ last.result.kind = "Ok"
    /\ Len(last.signed_headers) = 2
    /\ last.signed_headers[1].number > last.signed_headers[2].number
    /\ last.result.v = last.signed_headers[2]

\* ------------------------------------------------------------ verify

MaxSignature == 3

Signatures == 0..MaxSignature

SignedBlockHeader == [header : BlockHeader, signature : Signatures]

\* A call that returns v, and a call that panics instead of returning.
Return(v) == [kind |-> "Return", v |-> v]

Panic == [kind |-> "Panic"]

\* SignedBlockHeader::verify_signature: "TODO: implement this", true.
verify_signature(signed_header) == Return(TRUE)

\* BlockHeader::verify_hash: its body is todo!(), which panics.
verify_hash(header) == Panic

\* verify(signed_header): the closure runs on a blocking task; a panic in it
\* is a join error that expect("Task should not crash") turns into a panic.
verify(signed_header) ==
    LET s == verify_signature(signed_header)
        h == verify_hash(signed_header.header)
    IN  IF s.kind = "Panic" THEN Panic
        ELSE IF ~s.v THEN [kind |-> "BadSignature", v |-> signed_header]
        ELSE IF h.kind = "Panic" THEN Panic
        ELSE IF ~h.v THEN [kind |-> "BadBlockHash", v |-> signed_header]
        ELSE [kind |-> "Ok", v |-> signed_header]

Verify ==
    \E signed_header \in SignedBlockHeader :
        /\ last' = [op |-> "verify", signed_header |-> signed_header,
                    result |-> verify(signed_header)]
        /\ UNCHANGED <<tables, stream>>

NextVerify == Verify

\* Signed headers from peers are verified one after the other.
SpecVerify == Init /\ [][NextVerify]_vars

\* C13: verify(signed_header) always completes with exactly one of
\* Ok(signed_header), BadSignature(signed_header) or
\* BadBlockHash(signed_header), and it is Ok with the input unchanged when
\* neither check rejects (a stubbed check counts as accepting).
C13_VerifyCompletes ==
    last.op = "verify" =>
        LET s == verify_signature(last.signed_header)
            h == verify_hash(last.signed_header.header)
            accepts(c) == c.kind = "Return" => c.v
        IN  /\ last.result.kind \in {"Ok", "BadSignature", "BadBlockHash"}
            /\ last.result.v = last.signed_header
            /\ (accepts(s) /\ accepts(h)) => last.result.kind = "Ok"

\* ------------------------------------------------------------ poisoning

\* C17: check_continuity reports the first item whose (number, hash) is not
\* the expected one as Discontinuity carrying that item and poisons the
\* expectation; every later call yields None, so a stream emits at most one
\* Discontinuity and nothing after it.
C17_PoisonOnFirstMismatch ==
    /\ [](\A i \in DOMAIN outputs :
            (outputs[i].kind = "Some" /\ outputs[i].v.kind = "Discontinuity") =>
                /\ \A j \in DOMAIN outputs : j > i => outputs[j] = None
                /\ \A j \in DOMAIN outputs :
                        j < i => (outputs[j].kind = "Some" /\ outputs[j].v.kind = "Ok"))
    /\ [][Len(outputs') = Len(outputs) + 1 =>
            LET o == outputs'[Len(outputs')]
            IN  IF expected.poisoned
                THEN o = None /\ expected' = expected
                ELSE /\ o.kind = "Some"
                     /\ o.v.kind \in {"Ok", "Discontinuity"}
                     /\ o.v.kind = "Ok" <=>
                            (/\ o.v.input.number = expected.number
                             /\ o.v.input.hash = expected.hash)
                     /\ expected'.poisoned <=> o.v.kind = "Discontinuity"]_vars

\* A stream whose second item broke the chain and that was asked once more.
C17_Witness ==
    /\ Len(outputs) = 3
    /\ outputs[1].kind = "Some" /\ outputs[1].v.kind = "Ok"
    /\ outputs[2].kind = "Some" /\ outputs[2].v.kind = "Discontinuity"
    /\ outputs[3] = None
    /\ expected.poisoned

\* ------------------------------------------------------------ transaction hash

MaxFelt == 1
MaxCalldata == 0

Bytes == 0..255

\* Big-endian byte strings: without their leading zeros, and left-padded.
Trim(bytes) ==
    IF \A i \in DOMAIN bytes : bytes[i] = 0 THEN <<>>
    ELSE LET k == CHOOSE i \in DOMAIN bytes :
                      bytes[i] # 0 /\ \A j \in 1..(i - 1) : bytes[j] = 0
         IN  SubSeq(bytes, k, Len(bytes))

Pad(bytes, n) ==
    [i \in 1..n |-> IF i <= n - Len(bytes) THEN 0 ELSE bytes[i - (n - Len(bytes))]]

\* A field element is a literal (its big-endian bytes without leading zeros)
\* or the result of a hash over field elements; hashes are taken to be free of
\* collisions. PanicFelt stands for a computation that panicked.
FeltOf(bytes) == [tag |-> "felt", bytes |-> Trim(bytes), args |-> <<>>]

FELT_ZERO == FeltOf(<<>>)

PanicFelt == [tag |-> "panic", bytes |-> <<>>, args |-> <<>>]

IsPanic(felt) == felt.tag = "panic"

\* The field modulus 2^251 + 17 * 2^192 + 1 as 32 big-endian bytes.
MODULUS ==
    [i \in 1..32 |-> IF i = 1 THEN 8 ELSE IF i = 8 THEN 17 ELSE IF i = 32 THEN 1 ELSE 0]

BytesLess(a, b) ==
    \E i \in 1..32 : a[i] < b[i] /\ \A j \in 1..(i - 1) : a[j] = b[j]

\* Felt::from_be_bytes: 32 bytes below the modulus.
from_be_bytes(b) ==
    IF BytesLess(b, MODULUS) THEN [kind |-> "Ok", v |-> FeltOf(b)]
    ELSE [kind |-> "Err"]

\* Felt::from_be_slice: at most 32 bytes, left-padded.
from_be_slice(bytes) ==
    IF Len(bytes) > 32 THEN [kind |-> "Err"] ELSE from_be_bytes(Pad(bytes, 32))

expect(r) == IF r.kind = "Ok" THEN r.v ELSE PanicFelt

as_be_bytes(felt) == Pad(felt.bytes, 32)

\* HashChain: update with each element, then finalize.
HashChain_finalize(elements) ==
    IF \E i \in DOMAIN elements : IsPanic(elements[i]) THEN PanicFelt
    ELSE [tag |-> "pedersen", bytes |-> <<>>, args |-> elements]

\* PoseidonHasher: write each element, then finish.
PoseidonHasher_finish(elements) ==
    IF \E i \in DOMAIN elements : IsPanic(elements[i]) THEN PanicFelt
    ELSE [tag |-> "poseidon", bytes |-> <<>>, args |-> elements]

unwrap_or(option, default) == IF option.kind = "Some" THEN option.v ELSE default

Updated(option) == IF option.kind = "Some" THEN <<option.v>> ELSE <<>>

\* ASCII of the prefixes and resource names.
PREFIX_DECLARE == <<100, 101, 99, 108, 97, 114, 101>>
PREFIX_DEPLOY == <<100, 101, 112, 108, 111, 121>>
PREFIX_DEPLOY_ACCOUNT == PREFIX_DEPLOY \o <<95, 97, 99, 99, 111, 117, 110, 116>>
PREFIX_INVOKE == <<105, 110, 118, 111, 107, 101>>
PREFIX_L1_HANDLER == <<108, 49, 95, 104, 97, 110, 100, 108, 101, 114>>
L1_GAS_RESOURCE_NAME == <<76, 49, 95, 71, 65, 83>>
L2_GAS_RESOURCE_NAME == <<76, 50, 95, 71, 65, 83>>

\* sn_keccak("constructor"), a fixed entry point.
CONSTRUCTOR == [tag |-> "sn_keccak", bytes |-> <<99>>, args |-> <<>>]

TransactionVersion_ZERO == FeltOf(<<0>>)
TransactionVersion_ONE == FeltOf(<<1>>)
TransactionVersion_TWO == FeltOf(<<2>>)
TransactionVersion_THREE == FeltOf(<<3>>)

\* _Generic_ compute transaction hash for older transactions (pre 0.8-ish).
legacy_compute_txn_hash(prefix, address, entry_point_selector, list_hash, chain_id, additional_data) ==
    HashChain_finalize(
        <<expect(from_be_slice(prefix)), address,
          unwrap_or(entry_point_selector, FELT_ZERO), list_hash, chain_id>>
        \o Updated(additional_data))

\* compute_txn_hash that absorbs max_fee before list_hash.
compute_txn_hash_fee_first(prefix, version, address, entry_point_selector, list_hash, max_fee, chain_id, nonce_or_class_hash, compiled_class_hash) ==
    HashChain_finalize(
        <<expect(from_be_slice(prefix)),
          expect(from_be_slice(as_be_bytes(version))),
          address, unwrap_or(entry_point_selector, FELT_ZERO),
          unwrap_or(max_fee, FELT_ZERO), list_hash, chain_id>>
        \o Updated(nonce_or_class_hash) \o Updated(compiled_class_hash))

\* _Generic_ compute transaction hash for v0-v2 transactions.
compute_txn_hash(prefix, version, address, entry_point_selector, list_hash, max_fee, chain_id, nonce_or_class_hash, compiled_class_hash) ==
    HashChain_finalize(
        <<expect(from_be_slice(prefix)),
          expect(from_be_slice(as_be_bytes(version))),
          address, unwrap_or(entry_point_selector, FELT_ZERO), list_hash,
          unwrap_or(max_fee, FELT_ZERO), chain_id>>
        \o Updated(nonce_or_class_hash) \o Updated(compiled_class_hash))

MAX_AMOUNT_BYTES == 8
MAX_PRICE_PER_UNIT_BYTES == 16
RESOURCE_VALUE_OFFSET_BYTES == MAX_AMOUNT_BYTES + MAX_PRICE_PER_UNIT_BYTES

\* b[lo..hi].copy_from_slice(src) on a 32 byte array, lo and hi counted from
\* 0 with hi exclusive; <<>> when the range or the lengths do not fit.
copy_from_slice(b, lo, hi, src) ==
    IF b = <<>> \/ lo < 0 \/ lo > hi \/ hi > 32 \/ hi - lo # Len(src) THEN <<>>
    ELSE [i \in 1..32 |-> IF i > lo /\ i <= hi THEN src[i - lo] ELSE b[i]]

\* flattened_bounds with the resource name copied to the top of the array.
flattened_bounds_name_at_top(resource_name, resource_bound) ==
    LET b0 == [i \in 1..32 |-> 0]
        b1 == copy_from_slice(b0, 32 - MAX_PRICE_PER_UNIT_BYTES, 32,
                              resource_bound.max_price_per_unit)
        b2 == copy_from_slice(b1, 32 - RESOURCE_VALUE_OFFSET_BYTES,
                              32 - MAX_PRICE_PER_UNIT_BYTES,
                              resource_bound.max_amount)
        b3 == copy_from_slice(b2, 0, Len(resource_name), resource_name)
    IN  IF b3 = <<>> THEN PanicFelt ELSE expect(from_be_bytes(b3))

\* flattened_bounds: resource name, max amount and max price per unit in one
\* felt; a slice that does not fit or a value that is no felt is a panic.
flattened_bounds(resource_name, resource_bound) ==
    LET b0 == [i \in 1..32 |-> 0]
        b1 == copy_from_slice(b0, 32 - MAX_PRICE_PER_UNIT_BYTES, 32,
                              resource_bound.max_price_per_unit)
        b2 == copy_from_slice(b1, 32 - RESOURCE_VALUE_OFFSET_BYTES,
                              32 - MAX_PRICE_PER_UNIT_BYTES,
                              resource_bound.max_amount)
        padding_length == 8 - Len(resource_name)
        b3 == copy_from_slice(b2, padding_length,
                              32 - RESOURCE_VALUE_OFFSET_BYTES, resource_name)
    IN  IF b3 = <<>> THEN PanicFelt ELSE expect(from_be_bytes(b3))

\* hash_fee_related_fields with the L2 bound absorbed before the L1 bound.
hash_fee_related_fields_l2_first(tip, resource_bounds) ==
    PoseidonHasher_finish(
        <<FeltOf(tip),
          flattened_bounds(L2_GAS_RESOURCE_NAME, resource_bounds.l2_gas),
          flattened_bounds(L1_GAS_RESOURCE_NAME, resource_bounds.l1_gas)>>)

hash_fee_related_fields(tip, resource_bounds) ==
    PoseidonHasher_finish(
        <<FeltOf(tip),
          flattened_bounds(L1_GAS_RESOURCE_NAME, resource_bounds.l1_gas),
          flattened_bounds(L2_GAS_RESOURCE_NAME, resource_bounds.l2_gas)>>)

\* compute_v3_txn_hash with the fee mode shifted to the high word.
compute_v3_txn_hash_fee_mode_high(prefix, version, sender_address, chain_id, nonce, tx_type_specific_data, tip, paymaster_data, nonce_data_availability_mode, fee_data_availability_mode, resource_bounds) ==
    LET fee_fields_hash == hash_fee_related_fields(tip, resource_bounds)
        da_mode_concatenation ==
            FeltOf(<<fee_data_availability_mode, 0, 0, 0,
                     nonce_data_availability_mode>>)
    IN  PoseidonHasher_finish(
            <<expect(from_be_slice(prefix)),
              expect(from_be_slice(as_be_bytes(version))),
              sender_address, fee_fields_hash,
              PoseidonHasher_finish(paymaster_data), chain_id, nonce,
              da_mode_concatenation>>
            \o tx_type_specific_data)

\* _Generic_ compute transaction hash for v3 transactions; the data
\* availability modes are 0 (L1) or 1 (L2) and (nonce << 32) + fee is the
\* five bytes nonce, 0, 0, 0, fee.
compute_v3_txn_hash(prefix, version, sender_address, chain_id, nonce, tx_type_specific_data, tip, paymaster_data, nonce_data_availability_mode, fee_data_availability_mode, resource_bounds) ==
    LET fee_fields_hash == hash_fee_related_fields(tip, resource_bounds)
        da_mode_concatenation ==
            FeltOf(<<nonce_data_availability_mode, 0, 0, 0,
                     fee_data_availability_mode>>)
    IN  PoseidonHasher_finish(
            <<expect(from_be_slice(prefix)),
              expect(from_be_slice(as_be_bytes(version))),
              sender_address, fee_fields_hash,
              PoseidonHasher_finish(paymaster_data), chain_id, nonce,
              da_mode_concatenation>>
            \o tx_type_specific_data)

list_hash_of(calldata) == HashChain_finalize(calldata)

compute_declare_v0_hash(txn, chain_id) ==
    compute_txn_hash(PREFIX_DECLARE, TransactionVersion_ZERO, txn.sender_address,
                     None, HashChain_finalize(<<>>), None, chain_id,
                     Some(txn.class_hash), None)

compute_declare_v1_hash(txn, chain_id) ==
    compute_txn_hash(PREFIX_DECLARE, TransactionVersion_ONE, txn.sender_address,
                     None, HashChain_finalize(<<txn.class_hash>>),
                     Some(txn.max_fee), chain_id, Some(txn.nonce), None)

compute_declare_v2_hash(txn, chain_id) ==
    compute_txn_hash(PREFIX_DECLARE, TransactionVersion_TWO, txn.sender_address,
                     None, HashChain_finalize(<<txn.class_hash>>),
                     Some(txn.max_fee), chain_id, Some(txn.nonce),
                     Some(txn.compiled_class_hash))

compute_declare_v3_hash(txn, chain_id) ==
    compute_v3_txn_hash(PREFIX_DECLARE, TransactionVersion_THREE,
                        txn.sender_address, chain_id, txn.nonce,
                        <<PoseidonHasher_finish(txn.account_deployment_data),
                          txn.class_hash, txn.compiled_class_hash>>,
                        txn.tip, txn.paymaster_data,
                        txn.nonce_data_availability_mode,
                        txn.fee_data_availability_mode, txn.resource_bounds)

\* The two formulas of compute_deploy_hash.
deploy_modern_hash(txn, chain_id) ==
    compute_txn_hash(PREFIX_DEPLOY, txn.version, txn.contract_address,
                     Some(CONSTRUCTOR), list_hash_of(txn.constructor_calldata),
                     None, chain_id, None, None)

deploy_legacy_hash(txn, chain_id) ==
    legacy_compute_txn_hash(PREFIX_DEPLOY, txn.contract_address,
                            Some(CONSTRUCTOR),
                            list_hash_of(txn.constructor_calldata), chain_id, None)

\* compute_deploy_hash keeping the modern hash when it does not match.
compute_deploy_hash_returns_modern(txn, chain_id) ==
    deploy_modern_hash(txn, chain_id)

compute_deploy_hash(txn, chain_id) ==
    LET h == deploy_modern_hash(txn, chain_id)
    IN  IF IsPanic(h) THEN PanicFelt
        ELSE IF h = txn.transaction_hash THEN h
        ELSE deploy_legacy_hash(txn, chain_id)

compute_deploy_account_v0v1_hash(txn, chain_id) ==
    compute_txn_hash(PREFIX_DEPLOY_ACCOUNT, txn.version, txn.contract_address,
                     None,
                     HashChain_finalize(<<txn.class_hash, txn.contract_address_salt>>
                                        \o txn.constructor_calldata),
                     Some(txn.max_fee), chain_id, Some(txn.nonce), None)

compute_deploy_account_v3_hash(txn, chain_id) ==
    compute_v3_txn_hash(PREFIX_DEPLOY_ACCOUNT, TransactionVersion_THREE,
                        txn.sender_address, chain_id, txn.nonce,
                        <<PoseidonHasher_finish(txn.constructor_calldata),
                          txn.class_hash, txn.contract_address_salt>>,
                        txn.tip, txn.paymaster_data,
                        txn.nonce_data_availability_mode,
                        txn.fee_data_availability_mode, txn.resource_bounds)

\* The two formulas of compute_invoke_v0_hash.
invoke_v0_modern_hash(txn, chain_id) ==
    compute_txn_hash(PREFIX_INVOKE, TransactionVersion_ZERO, txn.sender_address,
                     Some(txn.entry_point_selector), list_hash_of(txn.calldata),
                     Some(txn.max_fee), chain_id, None, None)

invoke_v0_legacy_hash(txn, chain_id) ==
    legacy_compute_txn_hash(PREFIX_INVOKE, txn.sender_address,
                            Some(txn.entry_point_selector),
                            list_hash_of(txn.calldata), chain_id, None)

compute_invoke_v0_hash(txn, chain_id) ==
    LET h == invoke_v0_modern_hash(txn, chain_id)
    IN  IF IsPanic(h) THEN PanicFelt
        ELSE IF h = txn.transaction_hash THEN h
        ELSE invoke_v0_legacy_hash(txn, chain_id)

\* compute_invoke_v1_hash that keeps a self-reported hash when there is one.
compute_invoke_v1_hash_keeps_reported(txn, chain_id) ==
    LET h == compute_txn_hash(PREFIX_INVOKE, TransactionVersion_ONE,
                              txn.sender_address, None, list_hash_of(txn.calldata),
                              Some(txn.max_fee), chain_id, Some(txn.nonce), None)
    IN  IF IsPanic(h) THEN PanicFelt
        ELSE IF txn.transaction_hash # FELT_ZERO THEN txn.transaction_hash
        ELSE h

compute_invoke_v1_hash(txn, chain_id) ==
    compute_txn_hash(PREFIX_INVOKE, TransactionVersion_ONE, txn.sender_address,
                     None, list_hash_of(txn.calldata), Some(txn.max_fee),
                     chain_id, Some(txn.nonce), None)

compute_invoke_v3_hash(txn, chain_id) ==
    compute_v3_txn_hash(PREFIX_INVOKE, TransactionVersion_THREE,
                        txn.sender_address, chain_id, txn.nonce,
                        <<PoseidonHasher_finish(txn.account_deployment_data),
                          PoseidonHasher_finish(txn.calldata)>>,
                        txn.tip, txn.paymaster_data,
                        txn.nonce_data_availability_mode,
                        txn.fee_data_availability_mode, txn.resource_bounds)

\* The three formulas of compute_l1_handler_hash.
l1_handler_modern_hash(txn, chain_id) ==
    compute_txn_hash(PREFIX_L1_HANDLER, txn.version, txn.contract_address,
                     Some(txn.entry_point_selector), list_hash_of(txn.calldata),
                     None, chain_id, Some(txn.nonce), None)

l1_handler_legacy_nonce_hash(txn, chain_id) ==
    legacy_compute_txn_hash(PREFIX_L1_HANDLER, txn.contract_address,
                            Some(txn.entry_point_selector),
                            list_hash_of(txn.calldata), chain_id, Some(txn.nonce))

l1_handler_legacy_invoke_hash(txn, chain_id) ==
    legacy_compute_txn_hash(PREFIX_INVOKE, txn.contract_address,
                            Some(txn.entry_point_selector),
                            list_hash_of(txn.calldata), chain_id, None)

\* compute_l1_handler_hash without the fallback to the invoke prefix.
compute_l1_handler_hash_without_invoke(txn, chain_id) ==
    LET h == l1_handler_modern_hash(txn, chain_id)
    IN  IF IsPanic(h) THEN PanicFelt
        ELSE IF h = txn.transaction_hash THEN h
        ELSE l1_handler_legacy_nonce_hash(txn, chain_id)

compute_l1_handler_hash(txn, chain_id) ==
    LET h == l1_handler_modern_hash(txn, chain_id)
        legacy == l1_handler_legacy_nonce_hash(txn, chain_id)
    IN  IF IsPanic(h) THEN PanicFelt
        ELSE IF h = txn.transaction_hash THEN h
        ELSE IF IsPanic(legacy) THEN PanicFelt
        ELSE IF legacy = txn.transaction_hash THEN legacy
        ELSE l1_handler_legacy_invoke_hash(txn, chain_id)

compute_transaction_hash(txn, chain_id) ==
    CASE txn.variant = "DeclareV0" -> compute_declare_v0_hash(txn, chain_id)
      [] txn.variant = "DeclareV1" -> compute_declare_v1_hash(txn, chain_id)
      [] txn.variant = "DeclareV2" -> compute_declare_v2_hash(txn, chain_id)
      [] txn.variant = "DeclareV3" -> compute_declare_v3_hash(txn, chain_id)
      [] txn.variant = "Deploy" -> compute_deploy_hash(txn, chain_id)
      [] txn.variant = "DeployAccountV0V1" ->
            compute_deploy_account_v0v1_hash(txn, chain_id)
      [] txn.variant = "DeployAccountV3" ->
            compute_deploy_account_v3_hash(txn, chain_id)
      [] txn.variant = "InvokeV0" -> compute_invoke_v0_hash(txn, chain_id)
      [] txn.variant = "InvokeV1" -> compute_invoke_v1_hash(txn, chain_id)
      [] txn.variant = "InvokeV3" -> compute_invoke_v3_hash(txn, chain_id)
      [] txn.variant = "L1Handler" -> compute_l1_handler_hash(txn, chain_id)

\* verify(txn, chain_id) of the transaction hasher.
transaction_hash_verify(txn, chain_id) ==
    LET computed_hash == compute_transaction_hash(txn, chain_id)
    IN  IF IsPanic(computed_hash) THEN Panic
        ELSE IF computed_hash = txn.transaction_hash THEN [kind |-> "Match"]
        ELSE [kind |-> "Mismatch", v |-> computed_hash]

\* ------------------------------------------------------------ transactions

FeltValues == {FeltOf(<<n>>) : n \in 0..MaxFelt}

\* The largest felt, MODULUS - 1.
FELT_MAX == FeltOf([i \in 1..32 |-> IF i = 1 THEN 8 ELSE IF i = 8 THEN 17 ELSE 0])

TransactionVersions == {TransactionVersion_ZERO, TransactionVersion_ONE, FELT_MAX}

Calldata == UNION {[1..n -> {FeltOf(<<1>>)}] : n \in 0..MaxCalldata}

\* u64 and u128 values as their big-endian bytes: the smallest and the largest.
U64Values == {[i \in 1..MAX_AMOUNT_BYTES |-> v] : v \in {0, 255}}

U128Values == {[i \in 1..MAX_PRICE_PER_UNIT_BYTES |-> v] : v \in {0, 255}}

ResourceBound ==
    {[max_amount |-> [i \in 1..MAX_AMOUNT_BYTES |-> v],
      max_price_per_unit |-> [i \in 1..MAX_PRICE_PER_UNIT_BYTES |-> v]] :
        v \in {0, 255}}

ResourceBounds == [l1_gas : ResourceBound, l2_gas : ResourceBound]

DataAvailabilityMode == {0, 1}

MAINNET == FeltOf(<<83, 78, 95, 77, 65, 73, 78>>)
GOERLI_TESTNET == FeltOf(<<83, 78, 95, 71, 79, 69, 82, 76, 73>>)
ChainId == {MAINNET, GOERLI_TESTNET}

DeclareTransactionV0V1(variant) ==
    [variant : {variant}, transaction_hash : {FELT_ZERO},
     sender_address : FeltValues, class_hash : FeltValues,
     max_fee : FeltValues, nonce : FeltValues]

DeclareTransactionV2 ==
    [variant : {"DeclareV2"}, transaction_hash : {FELT_ZERO},
     sender_address : FeltValues, class_hash : FeltValues,
     max_fee : FeltValues, nonce : FeltValues, compiled_class_hash : FeltValues]

DeclareTransactionV3 ==
    [variant : {"DeclareV3"}, transaction_hash : {FELT_ZERO},
     account_deployment_data : Calldata, class_hash : FeltValues,
     compiled_class_hash : FeltValues, sender_address : FeltValues,
     nonce : FeltValues, tip : U64Values, paymaster_data : Calldata,
     nonce_data_availability_mode : DataAvailabilityMode,
     fee_data_availability_mode : DataAvailabilityMode,
     resource_bounds : ResourceBounds]

DeployTransaction ==
    [variant : {"Deploy"}, transaction_hash : {FELT_ZERO},
     version : TransactionVersions, contract_address : FeltValues,
     constructor_calldata : Calldata]

DeployAccountTransactionV0V1 ==
    [variant : {"DeployAccountV0V1"}, transaction_hash : {FELT_ZERO},
     version : TransactionVersions, contract_address : FeltValues,
     class_hash : FeltValues, contract_address_salt : FeltValues,
     constructor_calldata : Calldata, max_fee : FeltValues, nonce : FeltValues]

DeployAccountTransactionV3 ==
    [variant : {"DeployAccountV3"}, transaction_hash : {FELT_ZERO},
     constructor_calldata : Calldata, class_hash : FeltValues,
     contract_address_salt : FeltValues, sender_address : FeltValues,
     nonce : FeltValues, tip : U64Values, paymaster_data : Calldata,
     nonce_data_availability_mode : DataAvailabilityMode,
     fee_data_availability_mode : DataAvailabilityMode,
     resource_bounds : ResourceBounds]

InvokeTransactionV0 ==
    [variant : {"InvokeV0"}, transaction_hash : {FELT_ZERO},
     sender_address : FeltValues, entry_point_selector : FeltValues,
     calldata : Calldata, max_fee : FeltValues]

InvokeTransactionV1 ==
    [variant : {"InvokeV1"}, transaction_hash : {FELT_ZERO},
     sender_address : FeltValues, calldata : Calldata,
     max_fee : FeltValues, nonce : FeltValues]

InvokeTransactionV3 ==
    [variant : {"InvokeV3"}, transaction_hash : {FELT_ZERO},
     account_deployment_data : Calldata, calldata : Calldata,
     sender_address : FeltValues, nonce : FeltValues, tip : U64Values,
     paymaster_data : Calldata,
     nonce_data_availability_mode : DataAvailabilityMode,
     fee_data_availability_mode : DataAvailabilityMode,
     resource_bounds : ResourceBounds]

L1HandlerTransaction ==
    [variant : {"L1Handler"}, transaction_hash : {FELT_ZERO},
     version : TransactionVersions, contract_address : FeltValues,
     entry_point_selector : FeltValues, calldata : Calldata, nonce : FeltValues]

\* Every variant of Transaction, the hash field still to be filled in.
Transaction ==
    DeclareTransactionV0V1("DeclareV0") \cup DeclareTransactionV0V1("DeclareV1")
    \cup DeclareTransactionV2 \cup DeclareTransactionV3
    \cup DeployTransaction
    \cup DeployAccountTransactionV0V1 \cup DeployAccountTransactionV3
    \cup InvokeTransactionV0 \cup InvokeTransactionV1 \cup InvokeTransactionV3
    \cup L1HandlerTransaction

\* The canonical (modern) formula of txn's variant.
CanonicalHash(txn, chain_id) ==
    CASE txn.variant = "Deploy" -> deploy_modern_hash(txn, chain_id)
      [] txn.variant = "InvokeV0" -> invoke_v0_modern_hash(txn, chain_id)
      [] txn.variant = "L1Handler" -> l1_handler_modern_hash(txn, chain_id)
      [] OTHER -> compute_transaction_hash(txn, chain_id)

\* The legacy fallback formulas of txn's variant, in the order they are tried.
LegacyHashes(txn, chain_id) ==
    CASE txn.variant = "Deploy" -> <<deploy_legacy_hash(txn, chain_id)>>
      [] txn.variant = "InvokeV0" -> <<invoke_v0_legacy_hash(txn, chain_id)>>
      [] txn.variant = "L1Handler" ->
            <<l1_handler_legacy_nonce_hash(txn, chain_id),
              l1_handler_legacy_invoke_hash(txn, chain_id)>>
      [] OTHER -> <<>>

FormulaHashes(txn, chain_id) ==
    {CanonicalHash(txn, chain_id)}
    \cup {LegacyHashes(txn, chain_id)[i] : i \in DOMAIN LegacyHashes(txn, chain_id)}

\* Transactions as a gateway reports them on chain chain_id: the self-reported
\* hash is the result of one of the variant's formulas, or of none.
ReportedTransactions(chain_id) ==
    UNION {{[txn EXCEPT !.transaction_hash = h] :
                h \in {FELT_ZERO} \cup FormulaHashes(txn, chain_id)} :
           txn \in Transaction}

InitTransaction ==
    /\ block_headers = EmptyDb.block_headers
    /\ canonical_blocks = EmptyDb.canonical_blocks
    /\ starknet_versions = EmptyDb.starknet_versions
    /\ block_signatures = EmptyDb.block_signatures
    /\ starknet_transactions = EmptyDb.starknet_transactions
    /\ contract_roots = EmptyDb.contract_roots
    /\ class_commitment_leaves = EmptyDb.class_commitment_leaves
    /\ contract_state_hashes = EmptyDb.contract_state_hashes
    /\ class_roots = EmptyDb.class_roots
    /\ storage_roots = EmptyDb.storage_roots
    /\ trie_nodes = EmptyDb.trie_nodes
    /\ l1_l2_head = EmptyDb.l1_l2_head
    /\ expected = [number |-> GENESIS, hash |-> ZERO, poisoned |-> FALSE]
    /\ outputs = <<>>
    /\ \E chain_id \in ChainId :
         last \in {[op |-> "transaction", txn |-> txn, chain_id |-> chain_id] :
                      txn \in ReportedTransactions(chain_id)}

\* The received transaction is verified.
VerifyTransaction ==
    /\ last.op = "transaction"
    /\ last' = [op |-> "transaction_hash_verify", txn |-> last.txn,
                chain_id |-> last.chain_id,
                result |-> transaction_hash_verify(last.txn, last.chain_id)]
    /\ UNCHANGED <<tables, stream>>

NextTransaction == VerifyTransaction

SpecTransaction == InitTransaction /\ [][NextTransaction]_vars

Verified == last.op = "transaction_hash_verify"

\* C14: verify(tx, chain_id) returns Match if and only if tx's self-reported
\* hash equals the canonical hash or a legacy fallback hash of its variant;
\* a variant without fallbacks matches on the canonical hash only.
C14_HashRoundTrip ==
    Verified =>
        (last.result.kind = "Match" <=>
            last.txn.transaction_hash \in FormulaHashes(last.txn, last.chain_id))

\* An L1 handler whose hash is only the one of the invoke prefix formula.
C14_Witness ==
    /\ Verified
    /\ last.txn.variant = "L1Handler"
    /\ last.txn.transaction_hash = l1_handler_legacy_invoke_hash(last.txn, last.chain_id)
    /\ last.txn.transaction_hash # l1_handler_modern_hash(last.txn, last.chain_id)
    /\ last.txn.transaction_hash # l1_handler_legacy_nonce_hash(last.txn, last.chain_id)
    /\ last.result.kind = "Match"

\* C15 as stated: when no formula of the variant matches the self-reported
\* hash, verify returns Mismatch(h) with h the result of the modern
\* (canonical) formula, also for Deploy, Invoke v0 and L1Handler.
C15_MismatchCarriesModern ==
    (Verified /\ last.txn.transaction_hash \notin FormulaHashes(last.txn, last.chain_id)) =>
        last.result = [kind |-> "Mismatch", v |-> CanonicalHash(last.txn, last.chain_id)]

\* C15 amended: when no formula of the variant matches the self-reported
\* hash, verify returns Mismatch(h) with h the result of the last formula
\* tried: the canonical one for a variant without fallbacks, the last legacy
\* fallback for Deploy, Invoke v0 and L1Handler.
C15_MismatchCarriesLastFormula ==
    (Verified /\ last.txn.transaction_hash \notin FormulaHashes(last.txn, last.chain_id)) =>
        LET legacy == LegacyHashes(last.txn, last.chain_id)
        IN  last.result =
                [kind |-> "Mismatch",
                 v |-> IF legacy = <<>> THEN CanonicalHash(last.txn, last.chain_id)
                       ELSE legacy[Len(legacy)]]

\* A Deploy that matches nothing: the legacy hash comes back, not the modern.
C15_Witness ==
    /\ Verified
    /\ last.txn.variant = "Deploy"
    /\ last.result.kind = "Mismatch"
    /\ last.result.v = deploy_legacy_hash(last.txn, last.chain_id)
    /\ last.result.v # deploy_modern_hash(last.txn, last.chain_id)

\* C16: verification never panics: for every variant, every value of its
\* fields (version and resource bounds included) and every chain id, verify
\* returns Match or Mismatch(computed).
C16_NeverPanics ==
    Verified =>
        /\ last.result.kind \in {"Match", "Mismatch"}
        /\ last.result.kind = "Mismatch" =>
              /\ ~IsPanic(last.result.v)
              /\ last.result.v = compute_transaction_hash(last.txn, last.chain_id)

\* A v3 invoke with the largest resource bounds and tip, and a deploy account
\* of the largest version, went through verify.
C16_Witness ==
    /\ Verified
    /\ \/ /\ last.txn.variant = "InvokeV3"
          /\ \A i \in 1..MAX_AMOUNT_BYTES :
                 last.txn.resource_bounds.l1_gas.max_amount[i] = 255
          /\ \A i \in 1..MAX_PRICE_PER_UNIT_BYTES :
                 last.txn.resource_bounds.l2_gas.max_price_per_unit[i] = 255
          /\ last.txn.nonce_data_availability_mode = 1
       \/ /\ last.txn.variant = "DeployAccountV0V1"
          /\ last.txn.version = FELT_MAX
    /\ last.result.kind \in {"Match", "Mismatch"}

\* ------------------------------------------------------------ purge of genesis

\* The purge just committed removed the genesis block, which was the latest
\* (the only canonical) block.
PurgedLatestGenesis ==
    /\ last.op = "purge_block"
    /\ last.block = GENESIS
    /\ last.purged # None
    /\ canonical_blocks = {}

\* C20: purging the genesis block when it is also the latest block, with its
\* header and signature persisted, leaves an empty database: no canonical
\* entry, header, transaction, root index or signature row remains,
\* block_exists(Latest) is false and block_id(Latest) is None.
C20_PurgeGenesisEmptiesDatabase ==
    PurgedLatestGenesis =>
        /\ block_headers = {}
        /\ starknet_transactions = {}
        /\ contract_roots = {} /\ class_commitment_leaves = {}
        /\ contract_state_hashes = {} /\ class_roots = {}
        /\ storage_roots = {}
        /\ block_signatures = {}
        /\ ~block_exists(Db, BlockId_Latest)
        /\ block_id(Db, BlockId_Latest) = None

\* ------------------------------------------------------------ sync handlers

MAX_BLOCKS_COUNT == 3
I64_MAX == 7
MaxNumBlocks == 4
MaxLimit == 5
MaxStep == 2

\* with_n_blocks(storage, n): blocks 0..n-1 with their signatures and data.
RECURSIVE with_n_blocks(_)
with_n_blocks(n) ==
    IF n = 0 THEN EmptyDb
    ELSE LET number == n - 1
             header == [number |-> number, hash |-> number,
                        parent_hash |-> IF number = GENESIS THEN ZERO ELSE number - 1,
                        starknet_version |-> 0]
             h == insert_block_header(with_n_blocks(n - 1), header)
             sg == insert_signature(h.db, number)
         IN  insert_block_data(sg.db, number)

Fin(error) == [part |-> "Fin", block |-> 0 - 1, error |-> error]

Part(part, block) == [part |-> part, block |-> block, error |-> "none"]

SyncHandlers ==
    {"get_headers", "get_bodies", "get_transactions", "get_receipts", "get_events"}

Direction == {"Forward", "Backward"}

Iteration ==
    [start : 0..(I64_MAX + 1), limit : 0..MaxLimit, step : 1..MaxStep,
     direction : Direction]

\* get_next_block_number in wrapping 64 bit arithmetic.
get_next_block_number_wrapping(start, step, direction) ==
    LET next == IF direction = "Forward" THEN (start + step) % (2 * I64_MAX + 2)
                ELSE (start - step) % (2 * I64_MAX + 2)
    IN  IF next <= I64_MAX THEN Some(next) ELSE None

\* get_next_block_number(start, step, direction): None outside 0..=i64::MAX.
get_next_block_number(start, step, direction) ==
    IF direction = "Forward"
    THEN IF start + step <= I64_MAX THEN Some(start + step) ELSE None
    ELSE IF start >= step THEN Some(start - step) ELSE None

\* A start above i64::MAX is no block number.
get_start_block_number(start) ==
    IF start <= I64_MAX THEN Some(start) ELSE None

\* What a handler's getter appends for a stored block, without the id of the
\* block on the closing Fin::ok().
getter_fin_without_id(handler, block_number) ==
    (CASE handler = "get_headers" ->
              <<Part("Header", block_number), Part("Signatures", block_number)>>
       [] handler = "get_bodies" ->
              IF block_number % 2 = 1
              THEN <<Part("Diff", block_number), Part("Classes", block_number)>>
              ELSE <<Part("Diff", block_number)>>
       [] handler = "get_transactions" -> <<Part("Transactions", block_number)>>
       [] handler = "get_receipts" -> <<Part("Receipts", block_number)>>
       [] handler = "get_events" -> <<Part("Events", block_number)>>)
    \o <<Fin("ok")>>

\* What a handler's getter appends for a stored block, closed by Fin::ok();
\* a block of odd number stands for one that declares classes. The replies
\* of transactions, receipts and events carry the id of their block, also on
\* the closing Fin::ok(); the Fin part of a headers response has no id, and
\* none is known for the Fin of a bodies reply.
getter(handler, block_number) ==
    CASE handler = "get_headers" ->
             <<Part("Header", block_number), Part("Signatures", block_number),
               Fin("ok")>>
      [] handler = "get_bodies" ->
             IF block_number % 2 = 1
             THEN <<Part("Diff", block_number), Part("Classes", block_number),
                    Fin("ok")>>
             ELSE <<Part("Diff", block_number), Fin("ok")>>
      [] handler = "get_transactions" ->
             <<Part("Transactions", block_number),
               [Fin("ok") EXCEPT !.block = block_number]>>
      [] handler = "get_receipts" ->
             <<Part("Receipts", block_number),
               [Fin("ok") EXCEPT !.block = block_number]>>
      [] handler = "get_events" ->
             <<Part("Events", block_number),
               [Fin("ok") EXCEPT !.block = block_number]>>

\* The loop of a handler that asks for the next block number after the last
\* block of the request too.
RECURSIVE iterate_loop_always_advances(_, _, _, _, _, _)
iterate_loop_always_advances(db, handler, block_number, i, limit, iteration) ==
    IF i = limit THEN [responses |-> <<>>, failed |-> FALSE]
    ELSE IF ~block_exists(db, BlockId_Number(block_number))
    THEN [responses |-> <<>>, failed |-> TRUE]
    ELSE LET next == get_next_block_number(block_number, iteration.step,
                                           iteration.direction)
             rest == iterate_loop_always_advances(db, handler, next.v, i + 1,
                                                  limit, iteration)
         IN  IF next.kind = "None"
             THEN [responses |-> getter(handler, block_number), failed |-> TRUE]
             ELSE [responses |-> getter(handler, block_number) \o rest.responses,
                   failed |-> rest.failed]

\* The loop of a handler over at most limit blocks: it stops at the first
\* block that is not stored, or when a further block is wanted and there is
\* no next block number.
RECURSIVE iterate_loop(_, _, _, _, _, _)
iterate_loop(db, handler, block_number, i, limit, iteration) ==
    IF i = limit THEN [responses |-> <<>>, failed |-> FALSE]
    ELSE IF ~block_exists(db, BlockId_Number(block_number))
    THEN [responses |-> <<>>, failed |-> TRUE]
    ELSE IF i = limit - 1
    THEN [responses |-> getter(handler, block_number), failed |-> FALSE]
    ELSE LET next == get_next_block_number(block_number, iteration.step,
                                           iteration.direction)
             rest == iterate_loop(db, handler, next.v, i + 1, limit, iteration)
         IN  IF next.kind = "None"
             THEN [responses |-> getter(handler, block_number), failed |-> TRUE]
             ELSE [responses |-> getter(handler, block_number) \o rest.responses,
                   failed |-> rest.failed]

\* A handler whose internal cap takes precedence over a missing block.
iterate_cap_first(db, handler, iteration) ==
    LET start == get_start_block_number(iteration.start)
        capped == iteration.limit > MAX_BLOCKS_COUNT
        limit == IF capped THEN MAX_BLOCKS_COUNT ELSE iteration.limit
        r == iterate_loop(db, handler, start.v, 0, limit, iteration)
    IN  IF iteration.limit = 0 THEN <<Fin("ok")>>
        ELSE IF start.kind = "None" THEN <<Fin("unknown")>>
        ELSE IF capped THEN r.responses \o <<Fin("too_much")>>
        ELSE IF r.failed THEN r.responses \o <<Fin("unknown")>>
        ELSE r.responses

\* A handler that looks at the start of the request before its limit.
iterate_start_first(db, handler, iteration) ==
    LET start == get_start_block_number(iteration.start)
        capped == iteration.limit > MAX_BLOCKS_COUNT
        limit == IF capped THEN MAX_BLOCKS_COUNT ELSE iteration.limit
        r == iterate_loop(db, handler, start.v, 0, limit, iteration)
    IN  IF start.kind = "None" THEN <<Fin("unknown")>>
        ELSE IF iteration.limit = 0 THEN <<Fin("ok")>>
        ELSE IF r.failed THEN r.responses \o <<Fin("unknown")>>
        ELSE IF capped THEN r.responses \o <<Fin("too_much")>>
        ELSE r.responses

\* The response stream of a sync handler: the blocks of the iteration, each
\* closed by Fin::ok(), then Fin::unknown() when a block was missing, else
\* Fin::too_much() when the limit was above the internal cap.
iterate(db, handler, iteration) ==
    LET start == get_start_block_number(iteration.start)
        capped == iteration.limit > MAX_BLOCKS_COUNT
        limit == IF capped THEN MAX_BLOCKS_COUNT ELSE iteration.limit
        r == iterate_loop(db, handler, start.v, 0, limit, iteration)
    IN  IF iteration.limit = 0 THEN <<Fin("ok")>>
        ELSE IF start.kind = "None" THEN <<Fin("unknown")>>
        ELSE IF r.failed THEN r.responses \o <<Fin("unknown")>>
        ELSE IF capped THEN r.responses \o <<Fin("too_much")>>
        ELSE r.responses

\* A request arrives at a handler whose storage holds blocks 0..n-1.
InitSync ==
    /\ \E n \in 0..MaxNumBlocks :
         /\ block_headers = with_n_blocks(n).block_headers
         /\ canonical_blocks = with_n_blocks(n).canonical_blocks
         /\ starknet_versions = with_n_blocks(n).starknet_versions
         /\ block_signatures = with_n_blocks(n).block_signatures
         /\ starknet_transactions = with_n_blocks(n).starknet_transactions
         /\ contract_roots = with_n_blocks(n).contract_roots
         /\ class_commitment_leaves = with_n_blocks(n).class_commitment_leaves
         /\ contract_state_hashes = with_n_blocks(n).contract_state_hashes
         /\ class_roots = with_n_blocks(n).class_roots
         /\ storage_roots = with_n_blocks(n).storage_roots
         /\ trie_nodes = with_n_blocks(n).trie_nodes
         /\ l1_l2_head = with_n_blocks(n).l1_l2_head
    /\ expected = [number |-> GENESIS, hash |-> ZERO, poisoned |-> FALSE]
    /\ outputs = <<>>
    /\ last \in [op : {"request"}, handler : SyncHandlers, iteration : Iteration]

\* The handler answers the request.
SyncHandler ==
    /\ last.op = "request"
    /\ last' = [op |-> "response", handler |-> last.handler,
                iteration |-> last.iteration,
                responses |-> iterate(Db, last.handler, last.iteration)]
    /\ UNCHANGED <<tables, stream>>

NextSync == SyncHandler

SpecSync == InitSync /\ [][NextSync]_vars

\* overlapping::get with the number of blocks to take left open: the block
\* numbers of the request that storage holds, in the order of the request.
overlapping_get(num_blocks, start_block, take, step, direction) ==
    LET taken == IF direction = "Forward"
                 THEN {i \in 0..(take - 1) : start_block + i * step < num_blocks}
                 ELSE IF start_block >= num_blocks THEN {}
                 ELSE {i \in 0..(take - 1) : start_block - i * step >= 0}
    IN  [i \in 1..Cardinality(taken) |->
            IF direction = "Forward" THEN start_block + (i - 1) * step
            ELSE start_block - (i - 1) * step]

\* The stored blocks among the first `take` blocks of the answered request.
Overlap(take) ==
    overlapping_get(Cardinality(canonical_blocks), last.iteration.start, take,
                    last.iteration.step, last.iteration.direction)

\* The stream that serves the given blocks and ends with the given trailer.
RECURSIVE Served(_, _)
Served(blocks, trailer) ==
    IF blocks = <<>> THEN <<Fin(trailer)>>
    ELSE getter(last.handler, Head(blocks)) \o Served(Tail(blocks), trailer)

Answered == last.op = "response"

\* C18 as stated: a request with limit L that overlaps k < L stored blocks
\* (k >= 1) is answered, by each handler and in either direction, with exactly
\* the k block payloads, each closed by Fin(ok), and one final Fin(unknown).
C18_PartialStreamTrailer ==
    Answered =>
        LET L == last.iteration.limit
            k == Len(Overlap(L))
        IN  (k >= 1 /\ k < L) => last.responses = Served(Overlap(L), "unknown")

\* C18 amended: the same for k below both the limit and the internal cap M; a
\* request that overlaps M or more blocks ends at the cap with Fin(too_much).
C18_PartialStreamTrailerBelowCap ==
    Answered =>
        LET L == last.iteration.limit
            k == Len(Overlap(L))
        IN  /\ (k >= 1 /\ k < L /\ k < MAX_BLOCKS_COUNT) =>
                  last.responses = Served(Overlap(L), "unknown")
            /\ (k >= MAX_BLOCKS_COUNT /\ k < L) =>
                  last.responses = Served(Overlap(MAX_BLOCKS_COUNT), "too_much")

\* A request above the cap for more blocks than stored, backwards: the
\* missing block wins over the cap.
C18_Witness ==
    /\ Answered
    /\ last.iteration.direction = "Backward"
    /\ last.iteration.limit > MAX_BLOCKS_COUNT
    /\ Len(Overlap(last.iteration.limit)) = 2
    /\ last.responses = Served(Overlap(last.iteration.limit), "unknown")

\* C19: a request whose limit is above the internal cap M and whose first M
\* requested blocks are stored is answered with exactly M block payloads,
\* each closed by Fin(ok), and a final Fin(too_much).
C19_InternalCapTrailer ==
    Answered =>
        ((/\ last.iteration.limit > MAX_BLOCKS_COUNT
          /\ Len(Overlap(MAX_BLOCKS_COUNT)) = MAX_BLOCKS_COUNT) =>
            last.responses = Served(Overlap(MAX_BLOCKS_COUNT), "too_much"))

\* The backward request of the test: it starts at block M - 1 and its last
\* block is genesis.
C19_Witness ==
    /\ Answered
    /\ last.iteration.direction = "Backward"
    /\ last.iteration.step = 1
    /\ last.iteration.start = MAX_BLOCKS_COUNT - 1
    /\ last.iteration.limit > MAX_BLOCKS_COUNT
    /\ Len(last.responses) > MAX_BLOCKS_COUNT
    /\ last.responses[Len(last.responses)] = Fin("too_much")

\* ------------------------------------------------------------ merkle-tree
\* crates/merkle-tree/src/contract.rs binds the trie engine MerkleTree to the
\* contract storage trie and to the global state trie.  The engine follows
\* section 4.2 of the specification: a binary Patricia-Merkle trie whose keys
\* are bit strings of the trie's height, most significant bit first.

\* MerkleTree<PedersenHash, 251>: the height, scaled down.
TrieHeight == 2
\* Leaf values are 0..MaxTrieValue; 0 is Felt::ZERO.
MaxTrieValue == 1
\* The number of set calls of one run.
MaxTrieOps == 3

Bit == {0, 1}
TrieKeys == [1..TrieHeight -> Bit]
TrieValues == 0..MaxTrieValue
\* ContractsStorageTree (tree_contracts) and StorageCommitmentTree (tree_global)
TrieFamily == {"tree_contracts", "tree_global"}

\* The in-memory tree: root = None, or a subtree of Binary, Edge and Leaf nodes.
NoNode == [tag |-> "None", path |-> <<>>, children |-> <<>>]
LeafNode == [tag |-> "Leaf", path |-> <<>>, children |-> <<>>]
BinaryNode(left, right) == [tag |-> "Binary", path |-> <<>>, children |-> <<left, right>>]
EdgeNode(path, child) == [tag |-> "Edge", path |-> path, children |-> <<child>>]

\* Felt values of the trie: a leaf value, or a Pedersen hash kept as a term.
\* `value` of an edge hash is its path read as a big-endian integer and
\* `length` the path length that is added to the Pedersen hash.
TrieFelt(v) == [tag |-> "felt", value |-> v, length |-> 0, children |-> <<>>]

TRIE_ZERO == TrieFelt(0)

LeafMissing == [tag |-> "leaf value missing", value |-> 0, length |-> 0, children |-> <<>>]

RECURSIVE BitsToInt(_)
BitsToInt(bits) ==
    IF bits = <<>> THEN 0
    ELSE 2 * BitsToInt(SubSeq(bits, 1, Len(bits) - 1)) + bits[Len(bits)]

\* H(Binary{L,R}) = Pedersen(hash(L), hash(R))
BinaryHash(left, right) == [tag |-> "pedersen", value |-> 0, length |-> 0, children |-> <<left, right>>]

\* H(Edge{child, path, len}) = Pedersen(hash(child), path) + len
EdgeHash(child, path) == [tag |-> "pedersen", value |-> BitsToInt(path), length |-> Len(path), children |-> <<child>>]

\* pathfinder_common::trie::TrieNode, a stored node: children by their hash.
TrieNode_Binary(left, right) == [tag |-> "Binary", path |-> <<>>, children |-> <<left, right>>]
TrieNode_Edge(child, path) == [tag |-> "Edge", path |-> path, children |-> <<child>>]

TrieNode_hash(node) ==
    IF node.tag = "Binary"
    THEN BinaryHash(node.children[1], node.children[2])
    ELSE EdgeHash(node.children[1], node.path)

\* The length of the longest common prefix of two bit strings.
RECURSIVE common_prefix_len(_, _)
common_prefix_len(a, b) ==
    IF a = <<>> \/ b = <<>> \/ Head(a) # Head(b) THEN 0
    ELSE 1 + common_prefix_len(Tail(a), Tail(b))

Suffix(bits, from) == SubSeq(bits, from, Len(bits))

\* An edge above `node` that is kept apart from an Edge below it.
EdgeAbove_unmerged(path, node) ==
    IF path = <<>> THEN node ELSE EdgeNode(path, node)

\* An edge of `path` above `node`.  An empty path is no edge, and an Edge with
\* an Edge child is a single Edge of the concatenated path.
EdgeAbove(path, node) ==
    IF path = <<>> THEN node
    ELSE IF node.tag = "Edge" THEN EdgeNode(path \o node.path, node.children[1])
    ELSE EdgeNode(path, node)

\* A split that puts the new leaf on the left whatever its bit.
RECURSIVE set_leaf_new_left(_, _)
set_leaf_new_left(node, key) ==
    CASE node.tag = "None" -> EdgeAbove(key, LeafNode)
      [] node.tag = "Leaf" -> node
      [] node.tag = "Binary" ->
            [node EXCEPT !.children[Head(key) + 1] = set_leaf_new_left(@, Tail(key))]
      [] node.tag = "Edge" ->
            LET c == common_prefix_len(node.path, key)
            IN  IF c = Len(node.path)
                THEN EdgeNode(node.path,
                              set_leaf_new_left(node.children[1], Suffix(key, c + 1)))
                ELSE EdgeAbove(SubSeq(key, 1, c),
                               BinaryNode(EdgeAbove(Suffix(key, c + 2), LeafNode),
                                          EdgeAbove(Suffix(node.path, c + 2),
                                                    node.children[1])))

\* set with a non-zero value: the leaf at `key` below `node` exists afterwards.
\* An edge that leaves the key's path is split at the first differing bit.
RECURSIVE set_leaf(_, _)
set_leaf(node, key) ==
    CASE node.tag = "None" -> EdgeAbove(key, LeafNode)
      [] node.tag = "Leaf" -> node
      [] node.tag = "Binary" ->
            [node EXCEPT !.children[Head(key) + 1] = set_leaf(@, Tail(key))]
      [] node.tag = "Edge" ->
            LET c == common_prefix_len(node.path, key)
            IN  IF c = Len(node.path)
                THEN EdgeNode(node.path, set_leaf(node.children[1], Suffix(key, c + 1)))
                ELSE LET old == EdgeAbove(Suffix(node.path, c + 2), node.children[1])
                         new == EdgeAbove(Suffix(key, c + 2), LeafNode)
                         branch == IF key[c + 1] = 0 THEN BinaryNode(new, old)
                                   ELSE BinaryNode(old, new)
                     IN  EdgeAbove(SubSeq(key, 1, c), branch)

\* set with Felt::ZERO: the leaf at `key` is removed; a Binary left with one
\* child becomes an Edge, which merges with an Edge above or below it.
RECURSIVE delete_leaf(_, _)
delete_leaf(node, key) ==
    CASE node.tag = "None" -> node
      [] node.tag = "Leaf" -> NoNode
      [] node.tag = "Binary" ->
            LET bit == Head(key)
                child == delete_leaf(node.children[bit + 1], Tail(key))
            IN  IF child.tag = "None"
                THEN EdgeAbove(<<1 - bit>>, node.children[2 - bit])
                ELSE [node EXCEPT !.children[bit + 1] = child]
      [] node.tag = "Edge" ->
            IF common_prefix_len(node.path, key) < Len(node.path) THEN node
            ELSE LET child == delete_leaf(node.children[1], Suffix(key, Len(node.path) + 1))
                 IN  IF child.tag = "None" THEN NoNode
                     ELSE EdgeAbove(node.path, child)

\* leaf of a storage that reads the values whatever its block.
leaf_of_any_block(storage, path) ==
    IF path \in DOMAIN storage.values THEN Some(storage.values[path])
    ELSE None

\* ContractStorage::leaf and StorageTrieStorage::leaf: the value stored at the
\* storage's block under `path`; nothing when the storage has no block.
leaf(storage, path) ==
    IF storage.block.kind = "None" THEN None
    ELSE IF path \in DOMAIN storage.values THEN Some(storage.values[path])
    ELSE None

\* ContractStorage::get and ::hash, StorageTrieStorage::get and ::hash: the
\* stored node of a hash (the node table, read through the node's index).
stored_node(storage, hash) ==
    IF \E row \in storage.nodes : row.hash = hash
    THEN Some((CHOOSE row \in storage.nodes : row.hash = hash).node)
    ELSE None

\* MerkleTree::new(root): the stored tree below `hash`, `height` levels above
\* the leaves, as the engine materialises it while it walks.
RECURSIVE resolve(_, _, _)
resolve(storage, hash, height) ==
    IF height = 0 THEN LeafNode
    ELSE LET node == stored_node(storage, hash).v
         IN  IF node.tag = "Binary"
             THEN BinaryNode(resolve(storage, node.children[1], height - 1),
                             resolve(storage, node.children[2], height - 1))
             ELSE EdgeNode(node.path,
                           resolve(storage, node.children[1], height - Len(node.path)))

\* ContractsStorageTree::empty, StorageCommitmentTree::empty
empty(storage) ==
    [root |-> NoNode, leaves |-> <<>>, storage |-> [storage EXCEPT !.block = None]]

\* ContractsStorageTree::load, StorageCommitmentTree::load: the tree of the
\* block's root index, the empty tree when the block has none.
load(storage) ==
    IF storage.root.kind = "None" THEN empty(storage)
    ELSE [root |-> resolve(storage, storage.root.v, TrieHeight),
          leaves |-> <<>>, storage |-> storage]

\* MerkleTree::set: the mutation is staged in the dirty-leaf map and in the
\* in-memory tree; a value of Felt::ZERO is a delete.  The store is not touched.
set(trie, key, value) ==
    [trie EXCEPT
        !.leaves = [k \in DOMAIN trie.leaves \cup {key} |->
                        IF k = key THEN value ELSE trie.leaves[k]],
        !.root = IF value = 0 THEN delete_leaf(trie.root, key)
                 ELSE set_leaf(trie.root, key)]

\* The depth-first walk of commit below `node`, which sits at `path`: the
\* node's hash and the nodes to store.  A leaf's value is its staged value,
\* or else the value the storage has for it.
RECURSIVE commit_subtree(_, _, _)
commit_subtree(trie, node, path) ==
    CASE node.tag = "Leaf" ->
            [hash |-> IF path \in DOMAIN trie.leaves THEN TrieFelt(trie.leaves[path])
                      ELSE IF leaf(trie.storage, path).kind = "Some"
                      THEN TrieFelt(leaf(trie.storage, path).v)
                      ELSE LeafMissing,
             nodes |-> {}]
      [] node.tag = "Binary" ->
            LET left == commit_subtree(trie, node.children[1], path \o <<0>>)
                right == commit_subtree(trie, node.children[2], path \o <<1>>)
                stored == TrieNode_Binary(left.hash, right.hash)
            IN  [hash |-> TrieNode_hash(stored),
                 nodes |-> left.nodes \cup right.nodes
                           \cup {[hash |-> TrieNode_hash(stored), node |-> stored]}]
      [] node.tag = "Edge" ->
            LET child == commit_subtree(trie, node.children[1], path \o node.path)
                stored == TrieNode_Edge(child.hash, node.path)
            IN  [hash |-> TrieNode_hash(stored),
                 nodes |-> child.nodes
                           \cup {[hash |-> TrieNode_hash(stored), node |-> stored]}]

\* ContractsStorageTree::commit, StorageCommitmentTree::commit: the root (zero
\* for the empty tree) and the nodes of the tree keyed by their hash.
commit(trie) ==
    IF trie.root.tag = "None" THEN [root |-> TRIE_ZERO, nodes |-> {}]
    ELSE LET update == commit_subtree(trie, trie.root, <<>>)
         IN  [root |-> update.hash, nodes |-> update.nodes]

\* MerkleTree::get_proof below the node of `hash`: the nodes on the way of
\* `key`, down to the leaf or to the edge that leaves the key's path.
RECURSIVE get_proof_from(_, _, _)
get_proof_from(storage, hash, key) ==
    IF key = <<>> THEN <<>>
    ELSE LET node == stored_node(storage, hash).v
         IN  IF node.tag = "Binary"
             THEN <<node>> \o get_proof_from(storage, node.children[Head(key) + 1], Tail(key))
             ELSE IF common_prefix_len(node.path, key) < Len(node.path)
             THEN <<node>>
             ELSE <<node>> \o get_proof_from(storage, node.children[1],
                                             Suffix(key, Len(node.path) + 1))

\* A proof with its last node left out.
get_proof_short(storage, key) ==
    IF storage.root.kind = "None" THEN <<>>
    ELSE LET proof == get_proof_from(storage, storage.root.v, key)
         IN  SubSeq(proof, 1, Len(proof) - 1)

\* ContractsStorageTree::get_proof, StorageCommitmentTree::get_proof: no
\* nodes when the block has no root index.
get_proof(storage, key) ==
    IF storage.root.kind = "None" THEN <<>>
    ELSE get_proof_from(storage, storage.root.v, key)

\* The storage after the block of `trie` is committed: the new nodes are
\* appended, the root index points at the new root (no index for the empty
\* tree) and the staged values are the block's values.
committed(trie) ==
    LET update == commit(trie)
        staged == [k \in DOMAIN trie.leaves \cup DOMAIN trie.storage.values |->
                      IF k \in DOMAIN trie.leaves THEN trie.leaves[k]
                      ELSE trie.storage.values[k]]
        kept == {k \in DOMAIN staged : staged[k] # 0}
    IN  [block |-> Some(GENESIS),
         root |-> IF update.root = TRIE_ZERO THEN None ELSE Some(update.root),
         values |-> IF kept = {} THEN <<>> ELSE [k \in kept |-> staged[k]],
         nodes |-> trie.storage.nodes \cup update.nodes]

EmptyStorage == [block |-> None, root |-> None, values |-> <<>>, nodes |-> {}]

\* A trie handle over the store of one family: `storage` is the store, `start`
\* the store the handle was loaded from, `ops` the set calls made on it.
InitTrie ==
    /\ block_headers = EmptyDb.block_headers
    /\ canonical_blocks = EmptyDb.canonical_blocks
    /\ starknet_versions = EmptyDb.starknet_versions
    /\ block_signatures = EmptyDb.block_signatures
    /\ starknet_transactions = EmptyDb.starknet_transactions
    /\ contract_roots = EmptyDb.contract_roots
    /\ class_commitment_leaves = EmptyDb.class_commitment_leaves
    /\ contract_state_hashes = EmptyDb.contract_state_hashes
    /\ class_roots = EmptyDb.class_roots
    /\ storage_roots = EmptyDb.storage_roots
    /\ trie_nodes = EmptyDb.trie_nodes
    /\ l1_l2_head = EmptyDb.l1_l2_head
    /\ expected = [number |-> GENESIS, hash |-> ZERO, poisoned |-> FALSE]
    /\ outputs = <<>>
    /\ \E family \in TrieFamily :
         last = [op |-> "load", family |-> family, storage |-> EmptyStorage,
                 start |-> EmptyStorage, trie |-> load(EmptyStorage), live |-> TRUE,
                 ops |-> <<>>, count |-> 0, root |-> TRIE_ZERO,
                 key |-> <<>>, proof |-> <<>>]

TrieCalls == {"load", "set", "commit", "get_proof", "purge_block"}

\* ContractsStorageTree::load / StorageCommitmentTree::load at the latest block.
TrieLoad ==
    /\ last.op \in TrieCalls
    /\ last' = [last EXCEPT !.op = "load", !.start = last.storage,
                            !.trie = load(last.storage), !.live = TRUE,
                            !.ops = <<>>, !.key = <<>>, !.proof = <<>>]
    /\ UNCHANGED <<tables, stream>>

\* ContractsStorageTree::set / StorageCommitmentTree::set
TrieSet ==
    /\ last.op \in TrieCalls
    /\ last.live
    /\ last.count < MaxTrieOps
    /\ \E key \in TrieKeys, value \in TrieValues :
         last' = [last EXCEPT !.op = "set", !.trie = set(@, key, value),
                              !.ops = Append(@, <<key, value>>),
                              !.count = @ + 1, !.key = <<>>, !.proof = <<>>]
    /\ UNCHANGED <<tables, stream>>

\* ContractsStorageTree::commit / StorageCommitmentTree::commit, which consumes
\* the handle; the block's root index and values are stored with its nodes.
TrieCommit ==
    /\ last.op \in TrieCalls
    /\ last.live
    /\ last' = [last EXCEPT !.op = "commit", !.storage = committed(last.trie),
                            !.live = FALSE, !.root = commit(last.trie).root,
                            !.key = <<>>, !.proof = <<>>]
    /\ UNCHANGED <<tables, stream>>

\* ContractsStorageTree::get_proof / StorageCommitmentTree::get_proof
TrieGetProof ==
    /\ last.op \in TrieCalls
    /\ \E key \in TrieKeys :
         last' = [last EXCEPT !.op = "get_proof", !.key = key,
                              !.proof = get_proof(last.storage, key)]
    /\ UNCHANGED <<tables, stream>>

\* purge_block of the trie's block: the rows of its root index go (DELETE FROM
\* contract_roots, DELETE FROM storage_roots), and so do the leaves of the
\* global trie (DELETE FROM contract_state_hashes); the trie nodes and the
\* storage values of the contract stay. A handle does not outlive the purge.
TriePurge ==
    /\ last.op \in TrieCalls
    /\ last' = [last EXCEPT
                   !.op = "purge_block",
                   !.storage = [@ EXCEPT
                                   !.root = None,
                                   !.values = IF last.family = "tree_global"
                                              THEN <<>> ELSE @],
                   !.live = FALSE, !.key = <<>>, !.proof = <<>>]
    /\ UNCHANGED <<tables, stream>>

NextTrie ==
    \/ TrieLoad
    \/ TrieSet
    \/ TrieCommit
    \/ TrieGetProof

SpecTrie == InitTrie /\ [][NextTrie]_vars

\* The trie calls next to purges of the trie's block.
NextTriePurge ==
    \/ TrieLoad
    \/ TrieSet
    \/ TrieCommit
    \/ TrieGetProof
    \/ TriePurge

SpecTriePurge == InitTrie /\ [][NextTriePurge]_vars

\* The handle after the set calls `ops`, in their order.
RECURSIVE set_all(_, _)
set_all(trie, ops) ==
    IF ops = <<>> THEN trie
    ELSE set_all(set(trie, Head(ops)[1], Head(ops)[2]), Tail(ops))

Orders(n) == {p \in [1..n -> 1..n] : \A i, j \in 1..n : p[i] = p[j] => i = j}

Permuted(ops, p) == [i \in 1..Len(ops) |-> ops[p[i]]]

TrieCommitted == last.op = "commit"

\* No key is written with two different values.
NoConflict(ops) ==
    \A i, j \in 1..Len(ops) : ops[i][1] = ops[j][1] => ops[i][2] = ops[j][2]

\* C21 as stated: the root a commit returns is the root of every permutation
\* of the set calls made since the handle was loaded.
C21_TrieDeterminism ==
    TrieCommitted =>
        \A p \in Orders(Len(last.ops)) :
            commit(set_all(load(last.start), Permuted(last.ops, p))).root = last.root

\* C21: trie determinism for set calls that write no key with two different
\* values: from the same starting trie, every permutation of the calls
\* commits to the same root.
C21_TrieDeterminismNoConflict ==
    (TrieCommitted /\ NoConflict(last.ops)) =>
        \A p \in Orders(Len(last.ops)) :
            commit(set_all(load(last.start), Permuted(last.ops, p))).root = last.root

\* Three calls on a stored trie, an insert and a delete among them, committed.
C21_Witness ==
    /\ TrieCommitted
    /\ NoConflict(last.ops)
    /\ last.start.root.kind = "Some"
    /\ Len(last.ops) >= 2
    /\ \E i, j \in 1..Len(last.ops) :
         /\ last.ops[i][1] # last.ops[j][1]
         /\ last.ops[i][2] = 0 /\ last.ops[i][1] \in DOMAIN last.start.values
         /\ last.ops[j][2] # 0 /\ last.ops[j][1] \notin DOMAIN last.start.values
    /\ last.root # TRIE_ZERO

\* The set calls of `ops` on keys other than `key`.
Without(ops, key) == SelectSeq(ops, LAMBDA o : o[1] # key)

\* `key` was not in the starting trie, was set to a non-zero value and its
\* last set call wrote zero.
SetThenZeroed(key) ==
    /\ key \notin DOMAIN last.start.values
    /\ \E i, j \in 1..Len(last.ops) :
         /\ i < j
         /\ last.ops[i][1] = key /\ last.ops[i][2] # 0
         /\ last.ops[j] = <<key, 0>>
         /\ \A l \in (j + 1)..Len(last.ops) : last.ops[l][1] # key

\* C22: setting a key to zero is a delete: a committed trie in which a key
\* was set to a non-zero value and later to zero has the tree and the root
\* of the trie that got the other set calls only.
C22_ZeroIsDelete ==
    TrieCommitted =>
        \A key \in TrieKeys :
            SetThenZeroed(key) =>
                LET never == set_all(load(last.start), Without(last.ops, key))
                IN  /\ last.trie.root = never.root
                    /\ last.root = commit(never).root
                    /\ last.storage = committed(never)

\* A key is set and zeroed next to a key that stays in the trie.
C22_Witness ==
    /\ TrieCommitted
    /\ \E key \in TrieKeys :
         /\ SetThenZeroed(key)
         /\ \E other \in DOMAIN last.storage.values :
              other[1] = key[1]
    /\ last.root # TRIE_ZERO

\* What a verifier learns from a proof.
Found(value) == [kind |-> "Found", v |-> value]
Absent == [kind |-> "Absent", v |-> TRIE_ZERO]
Invalid == [kind |-> "Invalid", v |-> TRIE_ZERO]

\* The proof replayed below a node whose hash must be `hash`: every node
\* hashes to the hash its parent names for it, and the key's bits choose the
\* child; an edge that leaves the key's path ends the proof of an absent key.
RECURSIVE replay(_, _, _)
replay(hash, key, proof) ==
    IF key = <<>> THEN (IF proof = <<>> THEN Found(hash) ELSE Invalid)
    ELSE IF proof = <<>> THEN Invalid
    ELSE LET node == Head(proof)
         IN  IF TrieNode_hash(node) # hash THEN Invalid
             ELSE IF node.tag = "Binary"
             THEN replay(node.children[Head(key) + 1], Tail(key), Tail(proof))
             ELSE IF common_prefix_len(node.path, key) < Len(node.path)
             THEN (IF Tail(proof) = <<>> THEN Absent ELSE Invalid)
             ELSE replay(node.children[1], Suffix(key, Len(node.path) + 1), Tail(proof))

\* The proof replayed from the root of the block; the empty trie has no root.
Replayed(storage, key, proof) ==
    IF storage.root.kind = "None" THEN (IF proof = <<>> THEN Absent ELSE Invalid)
    ELSE replay(storage.root.v, key, proof)

\* C23: proof soundness: the nodes get_proof returns for a key, replayed from
\* the committed root along the key with the hashing rule, reach the value
\* stored at the key, or show the key absent when nothing is stored there.
C23_ProofSoundness ==
    last.op = "get_proof" =>
        Replayed(last.storage, last.key, last.proof) =
            IF last.key \in DOMAIN last.storage.values
            THEN Found(TrieFelt(last.storage.values[last.key]))
            ELSE Absent

\* The proof of a stored key that passes a Binary and an Edge.
C23_Witness ==
    /\ last.op = "get_proof"
    /\ last.key \in DOMAIN last.storage.values
    /\ \E i, j \in 1..Len(last.proof) :
         last.proof[i].tag = "Binary" /\ last.proof[j].tag = "Edge"

\* ------------------------------------------------------------ p2p
\* crates/p2p: the peers of tests.rs, each built from the same Config.  The
\* connection behaviour follows the specification's capacity rule and the
\* expectations of tests.rs; only direct connections are made, and a dial is
\* made after the connection timeouts of earlier dials have passed.

\* The peers are 1..MaxPeer.
MaxPeer == 3
\* Config::max_inbound_direct_peers, the same for every peer (2 in tests.rs)
max_inbound_direct_peers == 1

PeerId == 1..MaxPeer

\* crate::peers::Peer of a connected peer: the remote and the direction.
Peer(remote, direction) == [remote |-> remote, direction |-> direction]

\* TestPeer::connected(): the peers a peer is connected to.
connected(peers, peer_id) == {c.remote : c \in peers[peer_id]}

\* The inbound direct connections a peer holds.
inbound_direct(peers, peer_id) == {c \in peers[peer_id] : c.direction = "Inbound"}

Ok(v) == [kind |-> "Ok", v |-> v]
Err(v) == [kind |-> "Err", v |-> v]

\* A dial that the listener accepts whatever it holds.
dial_without_limit(peers, dialer, peer_id) ==
    IF peer_id \in connected(peers, dialer)
    THEN [peers |-> peers, result |-> Err("already connected")]
    ELSE [peers |-> [peers EXCEPT ![dialer] = @ \cup {Peer(peer_id, "Outbound")},
                                  ![peer_id] = @ \cup {Peer(dialer, "Inbound")}],
          result |-> Ok("connection established")]

\* Client::dial(peer_id, addr) by `dialer`: the listener closes an inbound
\* connection that exceeds its limit, and the dial fails; a peer that is
\* already connected is not dialled again.
dial(peers, dialer, peer_id) ==
    IF peer_id \in connected(peers, dialer)
    THEN [peers |-> peers, result |-> Err("already connected")]
    ELSE IF Cardinality(inbound_direct(peers, peer_id)) >= max_inbound_direct_peers
    THEN [peers |-> peers, result |-> Err("connection closed")]
    ELSE [peers |-> [peers EXCEPT ![dialer] = @ \cup {Peer(peer_id, "Outbound")},
                                  ![peer_id] = @ \cup {Peer(dialer, "Inbound")}],
          result |-> Ok("connection established")]

\* Client::disconnect(peer_id) by `peer`: the connection is closed on both ends.
disconnect(peers, peer, peer_id) ==
    [peers EXCEPT ![peer] = {c \in @ : c.remote # peer_id},
                  ![peer_id] = {c \in @ : c.remote # peer}]

\* TestPeer::new for every peer: nobody is connected.
InitPeers ==
    /\ block_headers = EmptyDb.block_headers
    /\ canonical_blocks = EmptyDb.canonical_blocks
    /\ starknet_versions = EmptyDb.starknet_versions
    /\ block_signatures = EmptyDb.block_signatures
    /\ starknet_transactions = EmptyDb.starknet_transactions
    /\ contract_roots = EmptyDb.contract_roots
    /\ class_commitment_leaves = EmptyDb.class_commitment_leaves
    /\ contract_state_hashes = EmptyDb.contract_state_hashes
    /\ class_roots = EmptyDb.class_roots
    /\ storage_roots = EmptyDb.storage_roots
    /\ trie_nodes = EmptyDb.trie_nodes
    /\ l1_l2_head = EmptyDb.l1_l2_head
    /\ expected = [number |-> GENESIS, hash |-> ZERO, poisoned |-> FALSE]
    /\ outputs = <<>>
    /\ last = [op |-> "new", peers |-> [p \in PeerId |-> {}],
               before |-> [p \in PeerId |-> {}], peer |-> 1, peer_id |-> 1,
               result |-> Ok("new")]

PeerCalls == {"new", "dial", "disconnect"}

\* Command::Dial
Dial ==
    /\ last.op \in PeerCalls
    /\ \E dialer \in PeerId :
         \E peer_id \in PeerId \ {dialer} :
            LET r == dial(last.peers, dialer, peer_id)
            IN  last' = [op |-> "dial", peers |-> r.peers, before |-> last.peers,
                      peer |-> dialer, peer_id |-> peer_id, result |-> r.result]
    /\ UNCHANGED <<tables, stream>>

\* Command::Disconnect
Disconnect ==
    /\ last.op \in PeerCalls
    /\ \E peer \in PeerId :
         \E peer_id \in connected(last.peers, peer) :
            last' = [op |-> "disconnect",
                     peers |-> disconnect(last.peers, peer, peer_id),
                     before |-> last.peers, peer |-> peer, peer_id |-> peer_id,
                     result |-> Ok("connection closed")]
    /\ UNCHANGED <<tables, stream>>

NextPeers ==
    \/ Dial
    \/ Disconnect

SpecPeers == InitPeers /\ [][NextPeers]_vars

\* The peer holds as many inbound direct connections as its limit allows.
Full(peers, peer_id) ==
    Cardinality(inbound_direct(peers, peer_id)) >= max_inbound_direct_peers

\* C24: inbound capacity: no peer holds more than max_inbound_direct_peers
\* inbound direct connections; a dial to a full peer fails and leaves the
\* dialer without a connection to it; a full peer that dials a peer which is
\* neither full nor connected to it gets its outbound connection.
C24_InboundCapacity ==
    last.op \in PeerCalls =>
        /\ \A p \in PeerId :
             Cardinality(inbound_direct(last.peers, p)) <= max_inbound_direct_peers
        /\ (last.op = "dial" /\ Full(last.before, last.peer_id)
                /\ last.peer_id \notin connected(last.before, last.peer)) =>
             /\ last.result.kind = "Err"
             /\ last.peer_id \notin connected(last.peers, last.peer)
             /\ last.peer \notin connected(last.peers, last.peer_id)
             /\ last.peers = last.before
        /\ (last.op = "dial" /\ Full(last.before, last.peer)
                /\ ~Full(last.before, last.peer_id)
                /\ last.peer_id \notin connected(last.before, last.peer)) =>
             /\ last.result.kind = "Ok"
             /\ Peer(last.peer_id, "Outbound") \in last.peers[last.peer]
             /\ Peer(last.peer, "Inbound") \in last.peers[last.peer_id]

\* A dial to a full peer by a peer that was not connected to it.
C24_Witness ==
    /\ last.op = "dial"
    /\ Full(last.before, last.peer_id)
    /\ last.peer_id \notin connected(last.before, last.peer)
    /\ last.result = Err("connection closed")
    /\ Cardinality(inbound_direct(last.peers, last.peer_id)) = max_inbound_direct_peers

\* ------------------------------------------------------------ chained streams

\* The header of the i-th call of check_continuity (of a call that yielded an item).
InputOf(i) == outputs[i].v.input

\* C25: a correctly chained stream passes in full: when the first header is
\* the expected one and every later header has number = previous number + 1
\* and parent_hash = previous hash, every call yields Ok and the expectation
\* is not poisoned.
C25_ChainedStreamPasses ==
    (/\ Len(outputs) >= 1
     /\ outputs[1].kind = "Some" /\ outputs[1].v.kind = "Ok"
     /\ \A i \in 2..Len(outputs) :
            /\ outputs[i].kind = "Some"
            /\ InputOf(i).number = InputOf(i - 1).number + 1
            /\ InputOf(i).parent_hash = InputOf(i - 1).hash)
        => /\ \A i \in 1..Len(outputs) : outputs[i].v.kind = "Ok"
           /\ ~expected.poisoned

\* ------------------------------------------------------------ sync rounds
\* The header sync towards a fixed anchor: each round asks next_gap for the
\* next gap and persists the headers of the gap's block numbers, which the
\* peers deliver from the chain that the anchor and the stored headers are
\* part of.

\* The chain has the blocks 0..MaxChain.
MaxChain == 3

\* The chain's header of block `number`; no hash is BlockHash::ZERO.
ChainHeader(number) ==
    [number |-> number, hash |-> number + 1,
     parent_hash |-> IF number = GENESIS THEN ZERO ELSE number,
     starknet_version |-> 0]

\* The storage after the chain's headers of `numbers` were persisted.
RECURSIVE with_chain_blocks(_)
with_chain_blocks(numbers) ==
    IF numbers = {} THEN EmptyDb
    ELSE LET number == MaxOf(numbers)
         IN  persist(with_chain_blocks(numbers \ {number}), <<ChainHeader(number)>>).db

\* The headers of the block numbers tail..head, one each.
RECURSIVE ChainHeaders(_, _)
ChainHeaders(tail, head) ==
    IF tail > head THEN <<>>
    ELSE <<ChainHeader(tail)>> \o ChainHeaders(tail + 1, head)

GapHeaders(gap) == ChainHeaders(gap.tail, gap.head)

\* The sync loop is followed for MaxRounds rounds.
MaxRounds == 5

\* Any part of the chain is stored and an anchor is chosen.
InitHeaderSync ==
    /\ \E numbers \in SUBSET (0..MaxChain) :
         /\ block_headers = with_chain_blocks(numbers).block_headers
         /\ canonical_blocks = with_chain_blocks(numbers).canonical_blocks
         /\ starknet_versions = with_chain_blocks(numbers).starknet_versions
         /\ block_signatures = with_chain_blocks(numbers).block_signatures
         /\ starknet_transactions = with_chain_blocks(numbers).starknet_transactions
         /\ contract_roots = with_chain_blocks(numbers).contract_roots
         /\ class_commitment_leaves = with_chain_blocks(numbers).class_commitment_leaves
         /\ contract_state_hashes = with_chain_blocks(numbers).contract_state_hashes
         /\ class_roots = with_chain_blocks(numbers).class_roots
         /\ storage_roots = with_chain_blocks(numbers).storage_roots
         /\ trie_nodes = with_chain_blocks(numbers).trie_nodes
         /\ l1_l2_head = with_chain_blocks(numbers).l1_l2_head
    /\ expected = [number |-> GENESIS, hash |-> ZERO, poisoned |-> FALSE]
    /\ outputs = <<>>
    /\ \E head \in 0..MaxChain :
         last = [op |-> "anchor", head |-> head, head_hash |-> ChainHeader(head).hash,
                 rounds |-> 0, gap |-> None, result |-> "None"]

\* One round: next_gap for the anchor, then persist of the gap's headers
\* (no call when the range tail..head is empty).  The storage the round
\* leaves, the gap and how the round ended.
sync_round(db, head, head_hash) ==
    LET gap == next_gap(db, head, head_hash)
        signed_headers == GapHeaders(gap.v)
        r == persist(db, signed_headers)
    IN  IF gap.kind = "None" THEN [db |-> db, gap |-> gap, result |-> "Synced"]
        ELSE IF signed_headers = <<>> THEN [db |-> db, gap |-> gap, result |-> "Empty"]
        ELSE [db |-> r.db, gap |-> gap, result |-> r.result.kind]

SyncRound ==
    /\ last.op \in {"anchor", "sync_round"}
    /\ last.rounds < MaxRounds
    /\ last' = [last EXCEPT !.op = "sync_round",
                            !.rounds = @ + 1,
                            !.gap = sync_round(Db, last.head, last.head_hash).gap,
                            !.result = sync_round(Db, last.head, last.head_hash).result]
    /\ Commit(sync_round(Db, last.head, last.head_hash).db)
    /\ UNCHANGED stream

NextHeaderSync == SyncRound

\* The sync loop keeps making rounds: a round is made again and again until
\* MaxRounds of them were made.
SpecHeaderSync ==
    /\ InitHeaderSync
    /\ [][NextHeaderSync]_vars
    /\ ([]<><<SyncRound>>_vars \/ []<>(last.rounds = MaxRounds))

\* C26: sync progress: every round's persist succeeds (no header of the gap
\* conflicts with a stored one), and after finitely many rounds next_gap
\* returns None for the anchor.
C26_SyncProgress ==
    /\ [](last.op = "sync_round" => last.result \in {"Synced", "Empty", "Ok"})
    /\ <>(last.op = "sync_round" /\ last.gap = None)

\* ------------------------------------------------------------ gap ranges

\* C27: every gap next_gap returns is a non-empty inclusive range,
\* tail <= head, whatever the storage holds (nothing included) and whatever
\* the anchor is (genesis included).
C27_GapWellFormed ==
    (last.op = "next_gap" /\ last.result.kind = "Some") =>
        last.result.v.tail <= last.result.v.head

\* ------------------------------------------------------------ purge frame

\* The rows of a table of (number, ..) rows that are keyed by another block.
OtherRows(rows, block) == {r \in rows : r.number # block}

\* C28: purge_block(n) changes nothing but block n: the canonical entry, the
\* header, the root index rows, the signature and the transactions of every
\* block m # n are the same rows after the call as before it, no row is
\* added, and no trie node row is deleted.
C28_PurgeFrame ==
    [][last'.op = "purge_block" =>
        LET block == last'.block
        IN  /\ OtherRows(canonical_blocks', block) = OtherRows(canonical_blocks, block)
            /\ OtherRows(block_headers', block) = OtherRows(block_headers, block)
            /\ contract_roots' \ {block} = contract_roots \ {block}
            /\ class_commitment_leaves' \ {block} = class_commitment_leaves \ {block}
            /\ contract_state_hashes' \ {block} = contract_state_hashes \ {block}
            /\ class_roots' \ {block} = class_roots \ {block}
            /\ storage_roots' \ {block} = storage_roots \ {block}
            /\ block_signatures' \ {block} = block_signatures \ {block}
            /\ starknet_versions' = starknet_versions
            /\ starknet_transactions' \subseteq starknet_transactions
            /\ \A c \in OtherRows(canonical_blocks, block) :
                   c.hash \in starknet_transactions =>
                       c.hash \in starknet_transactions'
            /\ trie_nodes' = trie_nodes]_vars

\* A block that had a header, root index rows, transactions and trie node
\* rows was purged while another block with all of these is stored: the
\* other block's rows and the purged block's trie node rows are there.
C28_Witness ==
    /\ last.op = "purge_block"
    /\ last.purged.kind = "Some"
    /\ last.block \in trie_nodes
    /\ ~Stored(last.block)
    /\ \E c \in canonical_blocks :
           /\ c.number # last.block
           /\ Stored(c.number)
           /\ c.number \in storage_roots
           /\ c.number \in contract_roots
           /\ c.number \in trie_nodes
           /\ c.hash \in starknet_transactions

\* ------------------------------------------------------------ latest block

\* C29: block_id(Latest) and block_header(Latest) denote the same block, the
\* stored block with the highest number; on empty storage both return None
\* and block_exists(Latest) is false.
C29_LatestAgree ==
    LET id == block_id(Db, BlockId_Latest)
        header == block_header(Db, BlockId_Latest)
    IN  IF block_headers = {} /\ canonical_blocks = {}
        THEN /\ id = None
             /\ header = None
             /\ ~block_exists(Db, BlockId_Latest)
        ELSE /\ id.kind = "Some"
             /\ header.kind = "Some"
             /\ header.v.number = id.v.number
             /\ header.v.hash = id.v.hash
             /\ id.v.number = MaxOf({r.number : r \in block_headers})

\* ------------------------------------------------------------ L1 acceptance

\* l1_l2_pointer: the stored L1-L2 pointer, None when it is not set.
l1_l2_pointer(db) == db.l1_l2_head

\* update_l1_l2_pointer(block): the pointer is set to `block`, None clears it.
update_l1_l2_pointer(db, block) == [db EXCEPT !.l1_l2_head = block]

\* block_is_l1_accepted that compares a block number as it was given, without
\* looking the block up.
block_is_l1_accepted_unchecked(db, block) ==
    IF l1_l2_pointer(db) = None THEN FALSE
    ELSE IF block.tag = "Number" THEN block.number <= l1_l2_pointer(db).v
    ELSE IF block_id(db, block) = None THEN FALSE
    ELSE block_id(db, block).v.number <= l1_l2_pointer(db).v

\* block_is_l1_accepted: false without a pointer, false when block_id finds
\* no block, else block_number <= l1_l2.
block_is_l1_accepted(db, block) ==
    IF l1_l2_pointer(db) = None THEN FALSE
    ELSE IF block_id(db, block) = None THEN FALSE
    ELSE block_id(db, block).v.number <= l1_l2_pointer(db).v

\* The block ids a caller can name.
BlockIds ==
    {BlockId_Latest} \cup {BlockId_Number(n) : n \in BlockNumbers}
        \cup {BlockId_Hash(h) : h \in BlockHashes}

UpdateL1L2Pointer ==
    \E block \in {None} \cup {Some(n) : n \in BlockNumbers} :
        /\ Commit(update_l1_l2_pointer(Db, block))
        /\ last' = [op |-> "update_l1_l2_pointer", block |-> block]
        /\ UNCHANGED stream

BlockIsL1Accepted ==
    \E block \in BlockIds :
        /\ last' = [op |-> "block_is_l1_accepted", block |-> block,
                    result |-> block_is_l1_accepted(Db, block)]
        /\ UNCHANGED <<tables, stream>>

\* Blocks are inserted and purged, the L1-L2 pointer moves, and blocks are
\* asked for their L1 acceptance.
NextL1 ==
    \/ InsertBlockHeader
    \/ InsertBlockData
    \/ PurgeBlock
    \/ UpdateL1L2Pointer
    \/ BlockIsL1Accepted

SpecL1 == Init /\ [][NextL1]_vars

\* C30: block_is_l1_accepted(block) is true exactly when the pointer is set,
\* the block is in the canonical index and its number is <= the pointer; a
\* canonical block gets the same answer by number and by hash; a block that
\* is not stored is not accepted even when its number is <= the pointer.
C30_L1Accepted ==
    /\ last.op = "block_is_l1_accepted" =>
         (last.result <=>
            /\ l1_l2_head # None
            /\ \E c \in canonical_blocks :
                 /\ CASE last.block.tag = "Number" -> c.number = last.block.number
                      [] last.block.tag = "Hash" -> c.hash = last.block.hash
                      [] OTHER -> \A x \in canonical_blocks : x.number <= c.number
                 /\ c.number <= l1_l2_head.v)
    /\ \A c \in canonical_blocks :
         block_is_l1_accepted(Db, BlockId_Number(c.number))
            = block_is_l1_accepted(Db, BlockId_Hash(c.hash))
    /\ \A n \in BlockNumbers :
         ~(\E c \in canonical_blocks : c.number = n) =>
             ~block_is_l1_accepted(Db, BlockId_Number(n))

\* A block below the pointer was asked for by number after it was purged and
\* is not accepted, while a stored block below the pointer is accepted by
\* number and by hash.
C30_Witness ==
    /\ last.op = "block_is_l1_accepted"
    /\ last.block.tag = "Number"
    /\ l1_l2_head # None
    /\ last.block.number <= l1_l2_head.v
    /\ ~Stored(last.block.number)
    /\ last.block.number \in trie_nodes
    /\ ~last.result
    /\ \E c \in canonical_blocks :
         /\ block_is_l1_accepted(Db, BlockId_Number(c.number))
         /\ block_is_l1_accepted(Db, BlockId_Hash(c.hash))
         /\ \E d \in canonical_blocks : ~block_is_l1_accepted(Db, BlockId_Hash(d.hash))

\* ------------------------------------------------------------ header uniqueness

\* C31: at most one header per block number and per block hash is stored;
\* insert_block_header of a header whose number or hash is already stored
\* fails, and the failed insert leaves block_headers and canonical_blocks as
\* they were.
C31_OneHeaderPerNumberAndHash ==
    /\ [](/\ \A r1 \in block_headers, r2 \in block_headers :
                (r1.number = r2.number \/ r1.hash = r2.hash) => r1 = r2
          /\ \A header \in BlockHeader :
                ((\E r \in block_headers :
                      r.number = header.number \/ r.hash = header.hash)
                  => /\ ~insert_block_header(Db, header).ok
                     /\ insert_block_header(Db, header).db.block_headers
                            = block_headers
                     /\ insert_block_header(Db, header).db.canonical_blocks
                            = canonical_blocks))
    /\ [][(last'.op = "insert_block_header" /\ ~last'.ok)
            => UNCHANGED <<block_headers, canonical_blocks>>]_vars

\* An insert has failed while two headers are stored, and a header that
\* shares only its hash with a stored one is refused.
C31_Witness ==
    /\ last.op = "insert_block_header"
    /\ ~last.ok
    /\ Cardinality(block_headers) >= 2
    /\ \E header \in BlockHeader :
          /\ ~Stored(header.number)
          /\ \E r \in block_headers : r.hash = header.hash
          /\ ~insert_block_header(Db, header).ok

\* ------------------------------------------------------------ point-in-time gap search
\* next_gap and persist run as two blocking tasks, each in a storage
\* transaction of its own: next_gap makes its three queries one after the
\* other, persist inserts its headers one after the other and commits.

\* The stored tables hold the rows of `db`.
TablesAre(db) ==
    /\ block_headers = db.block_headers
    /\ canonical_blocks = db.canonical_blocks
    /\ starknet_versions = db.starknet_versions
    /\ block_signatures = db.block_signatures
    /\ starknet_transactions = db.starknet_transactions
    /\ contract_roots = db.contract_roots
    /\ class_commitment_leaves = db.class_commitment_leaves
    /\ contract_state_hashes = db.contract_state_hashes
    /\ class_roots = db.class_roots
    /\ storage_roots = db.storage_roots
    /\ trie_nodes = db.trie_nodes
    /\ l1_l2_head = db.l1_l2_head

\* The batches persist is called with: the chain's headers tail..head.
ChainBatches ==
    {ChainHeaders(tail, head) : tail \in 0..MaxChain, head \in 0..MaxChain}
        \ {<<>>}

\* Queries that read the stored tables afresh, statement by statement.
read_view_live(snapshot, db) == db

\* db.transaction(): every query of the transaction reads the tables as they
\* were at the transaction's first query.
read_view(snapshot, db) == snapshot

\* Any part of the chain is stored; next_gap is called for an anchor and
\* persist for a batch.
InitSnapshot ==
    /\ expected = [number |-> GENESIS, hash |-> ZERO, poisoned |-> FALSE]
    /\ outputs = <<>>
    /\ \E head \in 0..MaxChain, signed_headers \in ChainBatches,
          numbers \in SUBSET (0..MaxChain) :
         /\ TablesAre(with_chain_blocks(numbers))
         /\ last = [op |-> "spawn_blocking",
                    head |-> head, head_hash |-> ChainHeader(head).hash,
                    pc |-> "block_exists", snapshot |-> with_chain_blocks(numbers),
                    head_exists |-> FALSE, gap_head |-> None, result |-> None,
                    initial |-> with_chain_blocks(numbers),
                    persist_pc |-> "insert", signed_headers |-> signed_headers,
                    tx |-> with_chain_blocks(numbers), committed |-> FALSE]

\* next_gap's first query: block_exists(head); the transaction reads from
\* here on.
GapBlockExists ==
    /\ last.pc = "block_exists"
    /\ last' = [last EXCEPT
                  !.op = "block_exists",
                  !.snapshot = Db,
                  !.head_exists = block_exists(read_view(Db, Db),
                                               BlockId_Number(last.head)),
                  !.pc = "gap_head"]
    /\ UNCHANGED <<tables, stream>>

\* next_gap's head: next_ancestor_without_parent(head) when the head exists
\* (Ok(None) when it finds nothing), else the head itself.
GapHead ==
    /\ last.pc = "gap_head"
    /\ LET found == next_ancestor_without_parent(read_view(last.snapshot, Db),
                                                 last.head)
       IN  last' = IF last.head_exists
                   THEN IF found = None
                        THEN [last EXCEPT !.op = "gap_head", !.result = None,
                                          !.pc = "done"]
                        ELSE [last EXCEPT !.op = "gap_head", !.gap_head = found,
                                          !.pc = "gap_tail"]
                   ELSE [last EXCEPT !.op = "gap_head",
                                     !.gap_head = Some([number |-> last.head,
                                                        hash |-> last.head_hash]),
                                     !.pc = "gap_tail"]
    /\ UNCHANGED <<tables, stream>>

\* next_gap's tail: next_ancestor(gap_head).unwrap_or_default(), and the gap
\* is returned.
GapTail ==
    /\ last.pc = "gap_tail"
    /\ LET ancestor == next_ancestor(read_view(last.snapshot, Db),
                                     last.gap_head.v.number)
           gap_tail == IF ancestor = None THEN [number |-> 0, hash |-> ZERO]
                       ELSE ancestor.v
       IN  last' = [last EXCEPT
                      !.op = "gap_tail",
                      !.result = Some([head |-> last.gap_head.v.number,
                                       head_hash |-> last.gap_head.v.hash,
                                       tail |-> gap_tail.number + 1,
                                       tail_parent_hash |-> gap_tail.hash]),
                      !.pc = "done"]
    /\ UNCHANGED <<tables, stream>>

\* One pass of persist's loop inside its transaction: insert_block_header,
\* then insert_signature; an error drops the transaction.
PersistInsert ==
    /\ last.persist_pc = "insert"
    /\ last.signed_headers # <<>>
    /\ LET h == insert_block_header(last.tx, Head(last.signed_headers))
           sg == insert_signature(h.db, Head(last.signed_headers).number)
       IN  last' = IF h.ok /\ sg.ok
                   THEN [last EXCEPT !.op = "persist_insert", !.tx = sg.db,
                                     !.signed_headers = Tail(@)]
                   ELSE [last EXCEPT !.op = "persist_insert",
                                     !.persist_pc = "done"]
    /\ UNCHANGED <<tables, stream>>

\* tx.commit(): the rows of the whole batch become the stored ones at once.
PersistCommit ==
    /\ last.persist_pc = "insert"
    /\ last.signed_headers = <<>>
    /\ Commit(last.tx)
    /\ last' = [last EXCEPT !.op = "commit", !.persist_pc = "done",
                            !.committed = TRUE]
    /\ UNCHANGED stream

NextSnapshot ==
    \/ GapBlockExists
    \/ GapHead
    \/ GapTail
    \/ PersistInsert
    \/ PersistCommit

SpecSnapshot == InitSnapshot /\ [][NextSnapshot]_vars

\* C32: next_gap is a point-in-time read: with a persist batch committing
\* concurrently, the gap it returns is what next_gap returns for the storage
\* before the commit or for the storage after it, never a mix of the two and
\* never a partially written batch.
C32_PointInTimeRead ==
    last.pc = "done" =>
        \/ last.result = next_gap(last.initial, last.head, last.head_hash)
        \/ /\ last.committed
           /\ last.result = next_gap(Db, last.head, last.head_hash)

\* A batch of two or more headers was committed between next_gap's first and
\* last query, the commit changes what next_gap returns, and next_gap has
\* returned the answer of the storage before the commit.
C32_Witness ==
    /\ last.op = "gap_tail"
    /\ last.pc = "done"
    /\ last.committed
    /\ last.snapshot = last.initial
    /\ Cardinality(block_headers) >= Cardinality(last.initial.block_headers) + 2
    /\ next_gap(Db, last.head, last.head_hash)
          # next_gap(last.initial, last.head, last.head_hash)
    /\ last.result = next_gap(last.initial, last.head, last.head_hash)

\* ------------------------------------------------------------ hash purity

\* txn with another self-reported hash.
Reporting(txn, hash) == [txn EXCEPT !.transaction_hash = hash]

\* The hashes a transaction of txn's fields may report: none, the result of
\* a formula of its variant, or another felt.
ReportedHashes(txn, chain_id) ==
    {FELT_ZERO, FELT_MAX} \cup FormulaHashes(txn, chain_id)

HasFallback(txn) == txn.variant \in {"Deploy", "InvokeV0", "L1Handler"}

\* C33 as stated: two transactions of the same variant that differ only in
\* their self-reported hash yield the same compute_transaction_hash result
\* for the same chain id, for every variant.
C33_HashIgnoresReportedHash ==
    Verified =>
        \A hash \in ReportedHashes(last.txn, last.chain_id) :
            compute_transaction_hash(Reporting(last.txn, hash), last.chain_id)
                = compute_transaction_hash(last.txn, last.chain_id)

\* C33, amended: the result does not depend on the self-reported hash for
\* the variants without a fallback; for Deploy, Invoke v0 and L1Handler each
\* formula of the variant does not depend on it, and the result is the
\* formula that equals the self-reported hash, else the last fallback.
C33_HashIgnoresReportedHashWithoutFallback ==
    Verified =>
        LET txn == last.txn
            chain_id == last.chain_id
            legacy == LegacyHashes(txn, chain_id)
        IN  /\ \A hash \in ReportedHashes(txn, chain_id) :
                  /\ CanonicalHash(Reporting(txn, hash), chain_id)
                        = CanonicalHash(txn, chain_id)
                  /\ LegacyHashes(Reporting(txn, hash), chain_id) = legacy
                  /\ ~HasFallback(txn) =>
                        compute_transaction_hash(Reporting(txn, hash), chain_id)
                            = compute_transaction_hash(txn, chain_id)
            /\ HasFallback(txn) =>
                  compute_transaction_hash(txn, chain_id) =
                      IF txn.transaction_hash \in FormulaHashes(txn, chain_id)
                      THEN txn.transaction_hash
                      ELSE legacy[Len(legacy)]

\* An Invoke v1 that reports the hash of its formula gets the same result
\* with any other reported hash, and a Deploy that reports its modern hash
\* was hashed with the modern formula.
C33_Witness ==
    /\ Verified
    /\ \/ /\ last.txn.variant = "InvokeV1"
          /\ last.txn.transaction_hash = CanonicalHash(last.txn, last.chain_id)
          /\ compute_transaction_hash(Reporting(last.txn, FELT_ZERO), last.chain_id)
                = last.txn.transaction_hash
       \/ /\ last.txn.variant = "Deploy"
          /\ last.txn.transaction_hash = deploy_modern_hash(last.txn, last.chain_id)
          /\ compute_transaction_hash(last.txn, last.chain_id)
                = last.txn.transaction_hash
          /\ compute_transaction_hash(Reporting(last.txn, FELT_ZERO), last.chain_id)
                = deploy_legacy_hash(last.txn, last.chain_id)

\* ------------------------------------------------------------ payload order

\* The Pedersen hash chain over `elements`, absorbed in this order.
Pedersen(elements) == [tag |-> "pedersen", bytes |-> <<>>, args |-> elements]

\* The felt of an ASCII prefix.
Prefix(ascii) == [tag |-> "felt", bytes |-> ascii, args |-> <<>>]

\* What the v0-v2 formula of txn's variant absorbs: prefix, version, address,
\* selector or zero, payload-list hash, max fee or zero, chain id, then the
\* nonce or class hash of the variant, then the compiled class hash.
PayloadV0V2(txn, chain_id) ==
    CASE txn.variant = "DeclareV0" ->
            <<Prefix(PREFIX_DECLARE), FeltOf(<<0>>), txn.sender_address, FELT_ZERO,
              Pedersen(<<>>), FELT_ZERO, chain_id, txn.class_hash>>
      [] txn.variant = "DeclareV1" ->
            <<Prefix(PREFIX_DECLARE), FeltOf(<<1>>), txn.sender_address, FELT_ZERO,
              Pedersen(<<txn.class_hash>>), txn.max_fee, chain_id, txn.nonce>>
      [] txn.variant = "DeclareV2" ->
            <<Prefix(PREFIX_DECLARE), FeltOf(<<2>>), txn.sender_address, FELT_ZERO,
              Pedersen(<<txn.class_hash>>), txn.max_fee, chain_id, txn.nonce,
              txn.compiled_class_hash>>
      [] txn.variant = "Deploy" ->
            <<Prefix(PREFIX_DEPLOY), txn.version, txn.contract_address, CONSTRUCTOR,
              Pedersen(txn.constructor_calldata), FELT_ZERO, chain_id>>
      [] txn.variant = "DeployAccountV0V1" ->
            <<Prefix(PREFIX_DEPLOY_ACCOUNT), txn.version, txn.contract_address,
              FELT_ZERO,
              Pedersen(<<txn.class_hash, txn.contract_address_salt>>
                       \o txn.constructor_calldata),
              txn.max_fee, chain_id, txn.nonce>>
      [] txn.variant = "InvokeV0" ->
            <<Prefix(PREFIX_INVOKE), FeltOf(<<0>>), txn.sender_address,
              txn.entry_point_selector, Pedersen(txn.calldata), txn.max_fee,
              chain_id>>
      [] txn.variant = "InvokeV1" ->
            <<Prefix(PREFIX_INVOKE), FeltOf(<<1>>), txn.sender_address, FELT_ZERO,
              Pedersen(txn.calldata), txn.max_fee, chain_id, txn.nonce>>
      [] txn.variant = "L1Handler" ->
            <<Prefix(PREFIX_L1_HANDLER), txn.version, txn.contract_address,
              txn.entry_point_selector, Pedersen(txn.calldata), FELT_ZERO,
              chain_id, txn.nonce>>

\* What the legacy formulas of txn's variant absorb: prefix, address,
\* selector, payload-list hash, chain id and an optional nonce; no version.
PayloadLegacy(txn, chain_id) ==
    CASE txn.variant = "Deploy" ->
            <<Pedersen(<<Prefix(PREFIX_DEPLOY), txn.contract_address, CONSTRUCTOR,
                         Pedersen(txn.constructor_calldata), chain_id>>)>>
      [] txn.variant = "InvokeV0" ->
            <<Pedersen(<<Prefix(PREFIX_INVOKE), txn.sender_address,
                         txn.entry_point_selector, Pedersen(txn.calldata),
                         chain_id>>)>>
      [] txn.variant = "L1Handler" ->
            <<Pedersen(<<Prefix(PREFIX_L1_HANDLER), txn.contract_address,
                         txn.entry_point_selector, Pedersen(txn.calldata),
                         chain_id, txn.nonce>>),
              Pedersen(<<Prefix(PREFIX_INVOKE), txn.contract_address,
                         txn.entry_point_selector, Pedersen(txn.calldata),
                         chain_id>>)>>

IsV0V2(txn) ==
    txn.variant \in {"DeclareV0", "DeclareV1", "DeclareV2", "Deploy",
                     "DeployAccountV0V1", "InvokeV0", "InvokeV1", "L1Handler"}

\* C34: the v0-v2 formula absorbs into the Pedersen hash chain, in this
\* order: type prefix, version, address, entry-point selector or zero,
\* payload-list hash, max fee or zero, chain id, the nonce or class hash when
\* the variant has one, and the compiled class hash only for Declare v2; the
\* legacy formula absorbs prefix, address, selector or zero, list hash,
\* chain id and an optional nonce, with no version field.
C34_PayloadOrderV0V2 ==
    (Verified /\ IsV0V2(last.txn)) =>
        /\ CanonicalHash(last.txn, last.chain_id)
              = Pedersen(PayloadV0V2(last.txn, last.chain_id))
        /\ HasFallback(last.txn) =>
              LegacyHashes(last.txn, last.chain_id)
                  = PayloadLegacy(last.txn, last.chain_id)
        /\ Len(CanonicalHash(last.txn, last.chain_id).args) = 9
              <=> last.txn.variant = "DeclareV2"

\* A Declare v2 whose max fee and nonce differ, and whose class hash and
\* compiled class hash differ, reports the hash of its formula.
C34_Witness ==
    /\ Verified
    /\ last.txn.variant = "DeclareV2"
    /\ last.txn.max_fee # last.txn.nonce
    /\ last.txn.class_hash # last.txn.compiled_class_hash
    /\ last.txn.max_fee # FELT_ZERO
    /\ last.result.kind = "Match"
    /\ last.txn.transaction_hash.args[6] = last.txn.max_fee
    /\ last.txn.transaction_hash.args[9] = last.txn.compiled_class_hash

\* ------------------------------------------------------------ v3 payload

\* The Poseidon hash over `elements`, fed in this order.
Poseidon(elements) == [tag |-> "poseidon", bytes |-> <<>>, args |-> elements]

\* A u64 below 256 as its eight big-endian bytes, v << 32, and a | b.
U64Bytes(v) == [i \in 1..8 |-> IF i = 8 THEN v ELSE 0]

ShiftLeft32(bytes) == [i \in 1..8 |-> IF i <= 4 THEN bytes[i + 4] ELSE 0]

RECURSIVE BitOr(_, _)
BitOr(a, b) ==
    IF a = 0 THEN b
    ELSE IF b = 0 THEN a
    ELSE (IF a % 2 = 1 \/ b % 2 = 1 THEN 1 ELSE 0) + 2 * BitOr(a \div 2, b \div 2)

BytesOr(a, b) == [i \in 1..8 |-> BitOr(a[i], b[i])]

\* (nonce_mode << 32) | fee_mode
DaModeWord(nonce_mode, fee_mode) ==
    FeltOf(BytesOr(ShiftLeft32(U64Bytes(nonce_mode)), U64Bytes(fee_mode)))

\* The type-specific tail of a v3 transaction.
TailV3(txn) ==
    CASE txn.variant = "DeclareV3" ->
            <<Poseidon(txn.account_deployment_data), txn.class_hash,
              txn.compiled_class_hash>>
      [] txn.variant = "DeployAccountV3" ->
            <<Poseidon(txn.constructor_calldata), txn.class_hash,
              txn.contract_address_salt>>
      [] txn.variant = "InvokeV3" ->
            <<Poseidon(txn.account_deployment_data), Poseidon(txn.calldata)>>

PrefixV3(txn) ==
    CASE txn.variant = "DeclareV3" -> Prefix(PREFIX_DECLARE)
      [] txn.variant = "DeployAccountV3" -> Prefix(PREFIX_DEPLOY_ACCOUNT)
      [] txn.variant = "InvokeV3" -> Prefix(PREFIX_INVOKE)

IsV3(txn) == txn.variant \in {"DeclareV3", "DeployAccountV3", "InvokeV3"}

\* C35: the v3 formula feeds Poseidon, in this order: prefix, version,
\* sender address, fee-fields hash, paymaster-data hash, chain id, nonce, the
\* DA-mode word, then the type-specific tail; the DA-mode word is
\* (nonce_mode << 32) | fee_mode for every pair of modes.
C35_PayloadOrderV3 ==
    (Verified /\ IsV3(last.txn)) =>
        LET txn == last.txn
        IN  compute_transaction_hash(txn, last.chain_id) =
                Poseidon(<<PrefixV3(txn), FeltOf(<<3>>), txn.sender_address,
                           hash_fee_related_fields(txn.tip, txn.resource_bounds),
                           Poseidon(txn.paymaster_data), last.chain_id, txn.nonce,
                           DaModeWord(txn.nonce_data_availability_mode,
                                      txn.fee_data_availability_mode)>>
                         \o TailV3(txn))

\* An Invoke v3 with nonce mode L2 and fee mode L1 reports the hash of its
\* formula; its DA-mode word is 2^32.
C35_Witness ==
    /\ Verified
    /\ last.txn.variant = "InvokeV3"
    /\ last.txn.nonce_data_availability_mode = 1
    /\ last.txn.fee_data_availability_mode = 0
    /\ last.result.kind = "Match"
    /\ last.txn.transaction_hash.args[8].bytes = <<1, 0, 0, 0, 0>>

\* ------------------------------------------------------------ fee fields

\* The 32 bytes of a flattened bound: the name left-padded to 8 bytes, the
\* max amount, the max price per unit.
BoundLayout(resource_name, resource_bound) ==
    Pad(resource_name, 8) \o resource_bound.max_amount
        \o resource_bound.max_price_per_unit

\* Amounts and prices whose bytes all differ, next to the ones of the model.
LayoutAmounts == U64Values \cup {[i \in 1..MAX_AMOUNT_BYTES |-> i]}

LayoutPrices == U128Values \cup {[i \in 1..MAX_PRICE_PER_UNIT_BYTES |-> 100 + i]}

LayoutBounds == [max_amount : LayoutAmounts, max_price_per_unit : LayoutPrices]

\* C36: flattened_bounds(name, bound) is the 32 byte big-endian value whose
\* first 8 bytes are the ASCII name (L1_GAS or L2_GAS) left-padded with zero
\* bytes, whose next 8 bytes are the max amount and whose last 16 bytes are
\* the max price per unit, for every amount and price; the fee-fields hash
\* absorbs tip, the L1 bound, the L2 bound in that order.
C36_FeeFieldsLayout ==
    (Verified /\ IsV3(last.txn)) =>
        LET txn == last.txn
            fee_fields_hash ==
                Poseidon(<<FeltOf(txn.tip),
                           FeltOf(BoundLayout(<<76, 49, 95, 71, 65, 83>>,
                                              txn.resource_bounds.l1_gas)),
                           FeltOf(BoundLayout(<<76, 50, 95, 71, 65, 83>>,
                                              txn.resource_bounds.l2_gas))>>)
        IN  /\ \A resource_name \in {L1_GAS_RESOURCE_NAME, L2_GAS_RESOURCE_NAME} :
                   \A resource_bound \in LayoutBounds :
                       /\ Len(BoundLayout(resource_name, resource_bound)) = 32
                       /\ flattened_bounds(resource_name, resource_bound) =
                              FeltOf(BoundLayout(resource_name, resource_bound))
            /\ hash_fee_related_fields(txn.tip, txn.resource_bounds) =
                   fee_fields_hash
            /\ compute_transaction_hash(txn, last.chain_id).args[4] =
                   fee_fields_hash

\* A Declare v3 with the largest L1 amount and price and an empty L2 bound
\* reports the hash of its formula.
C36_Witness ==
    /\ Verified
    /\ last.txn.variant = "DeclareV3"
    /\ last.txn.resource_bounds.l1_gas.max_amount = [i \in 1..8 |-> 255]
    /\ last.txn.resource_bounds.l1_gas.max_price_per_unit = [i \in 1..16 |-> 255]
    /\ last.txn.resource_bounds.l2_gas.max_amount = [i \in 1..8 |-> 0]
    /\ last.result.kind = "Match"
    /\ last.txn.transaction_hash.args[4].args[2].bytes =
           <<76, 49, 95, 71, 65, 83>> \o [i \in 1..24 |-> 255]

\* ------------------------------------------------------------ empty answers

\* The block numbers start, start +- step, ... of the answered request, at
\* most `take` of them, that lie in 0..=i64::MAX.
RequestedNumbers(take) ==
    {n \in 0..I64_MAX :
        \E i \in 0..(take - 1) :
            n = IF last.iteration.direction = "Forward"
                THEN last.iteration.start + i * last.iteration.step
                ELSE last.iteration.start - i * last.iteration.step}

StoredNumbers == {n \in 0..I64_MAX : block_exists(Db, BlockId_Number(n))}

PayloadParts == {i \in 1..Len(last.responses) : last.responses[i].part # "Fin"}

\* C37: a request that serves no block is answered with exactly one message:
\* Fin(ok) when the limit is 0, whatever the start, and Fin(unknown) when the
\* limit is above 0 and the start is beyond i64::MAX or the requested range
\* overlaps no stored block; for each of the five handlers.
C37_EmptyAnswer ==
    Answered =>
        LET iteration == last.iteration
        IN  /\ PayloadParts = {} => Len(last.responses) = 1
            /\ iteration.limit = 0 => last.responses = <<Fin("ok")>>
            /\ (/\ iteration.limit > 0
                /\ \/ iteration.start > I64_MAX
                   \/ Overlap(iteration.limit) = <<>>
                   \/ RequestedNumbers(iteration.limit) \cap StoredNumbers = {}) =>
                   last.responses = <<Fin("unknown")>>

\* A request of limit 0 whose start is beyond i64::MAX, answered with Fin(ok)
\* by a handler whose storage holds blocks.
C37_Witness ==
    /\ Answered
    /\ last.iteration.limit = 0
    /\ last.iteration.start > I64_MAX
    /\ canonical_blocks # {}
    /\ last.responses = <<Fin("ok")>>

\* ------------------------------------------------------------ next block number

\* get_next_block_number is called with a block number (at most i64::MAX), a
\* step of any 64 bit value above 0 (u64::MAX is 2 * i64::MAX + 1) and a
\* direction.
InitNextBlockNumber ==
    /\ block_headers = EmptyDb.block_headers
    /\ canonical_blocks = EmptyDb.canonical_blocks
    /\ starknet_versions = EmptyDb.starknet_versions
    /\ block_signatures = EmptyDb.block_signatures
    /\ starknet_transactions = EmptyDb.starknet_transactions
    /\ contract_roots = EmptyDb.contract_roots
    /\ class_commitment_leaves = EmptyDb.class_commitment_leaves
    /\ contract_state_hashes = EmptyDb.contract_state_hashes
    /\ class_roots = EmptyDb.class_roots
    /\ storage_roots = EmptyDb.storage_roots
    /\ trie_nodes = EmptyDb.trie_nodes
    /\ l1_l2_head = EmptyDb.l1_l2_head
    /\ expected = [number |-> GENESIS, hash |-> ZERO, poisoned |-> FALSE]
    /\ outputs = <<>>
    /\ last \in [op : {"call"}, start : 0..I64_MAX,
                 step : 1..(2 * I64_MAX + 1), direction : Direction]

GetNextBlockNumber ==
    /\ last.op = "call"
    /\ last' = [op |-> "get_next_block_number", start |-> last.start,
                step |-> last.step, direction |-> last.direction,
                next |-> get_next_block_number(last.start, last.step,
                                               last.direction)]
    /\ UNCHANGED <<tables, stream>>

NextNextBlockNumber == GetNextBlockNumber

SpecNextBlockNumber == InitNextBlockNumber /\ [][NextNextBlockNumber]_vars

\* C38: get_next_block_number(start, step, direction) is start + step for
\* Forward and start - step for Backward, and None whenever that would be
\* above i64::MAX or below 0; it never wraps around.
C38_NextBlockNumber ==
    last.op = "get_next_block_number" =>
        LET exact == IF last.direction = "Forward" THEN last.start + last.step
                     ELSE last.start - last.step
        IN  /\ (exact > I64_MAX \/ exact < 0) => last.next = None
            /\ (exact >= 0 /\ exact <= I64_MAX) => last.next = Some(exact)
            /\ last.next # None =>
                   /\ last.direction = "Forward" => last.next.v > last.start
                   /\ last.direction = "Backward" => last.next.v < last.start

\* Forward from block 1 by u64::MAX: the sum wraps to 0 in 64 bits, and the
\* answer is None.
C38_Witness ==
    /\ last.op = "get_next_block_number"
    /\ last.direction = "Forward"
    /\ last.start = 1
    /\ last.step = 2 * I64_MAX + 1
    /\ last.next = None

\* ------------------------------------------------------------ served blocks

\* The i-th block number of the answered request, counted from 0.
RequestedBlock(i) ==
    IF last.iteration.direction = "Forward"
    THEN last.iteration.start + i * last.iteration.step
    ELSE last.iteration.start - i * last.iteration.step

Min(a, b) == IF a < b THEN a ELSE b

\* The blocks start, start +- step, ... up to the first one that is not
\* stored, at most min(limit, M) of them.
ServedBlocks ==
    LET most == Min(last.iteration.limit, MAX_BLOCKS_COUNT)
        counts == {k \in 0..most :
                      \A i \in 0..(k - 1) : RequestedBlock(i) \in StoredNumbers}
        count == CHOOSE k \in counts : \A other \in counts : other <= k
    IN  [i \in 1..count |-> RequestedBlock(i - 1)]

\* The kinds of the payload parts a handler sends for a stored block.
PayloadKinds(handler, block) ==
    CASE handler = "get_headers" -> <<"Header", "Signatures">>
      [] handler = "get_bodies" ->
             IF block \in {n \in 0..I64_MAX : n % 2 = 1}
             THEN <<"Diff", "Classes">> ELSE <<"Diff">>
      [] handler = "get_transactions" -> <<"Transactions">>
      [] handler = "get_receipts" -> <<"Receipts">>
      [] handler = "get_events" -> <<"Events">>

\* Whether the handler's replies carry a block id next to their kind.
RepliesCarryId(handler) ==
    handler \in {"get_transactions", "get_receipts", "get_events"}

\* The messages from position `at` on are the payloads of the blocks, each
\* followed at once by its Fin(ok), and then nothing but a trailer.
RECURSIVE ServesFrom(_, _)
ServesFrom(at, blocks) ==
    IF blocks = <<>>
    THEN \/ at = Len(last.responses) + 1
         \/ /\ at = Len(last.responses)
            /\ last.responses[at].part = "Fin"
            /\ last.responses[at].error \in {"ok", "unknown", "too_much"}
            /\ last.responses[at].error = "ok" => Len(last.responses) = 1
    ELSE LET kinds == PayloadKinds(last.handler, Head(blocks))
             fin == at + Len(kinds)
         IN  /\ fin <= Len(last.responses)
             /\ \A i \in 1..Len(kinds) :
                    /\ last.responses[at + i - 1].part = kinds[i]
                    /\ last.responses[at + i - 1].block = Head(blocks)
                    /\ last.responses[at + i - 1].error = "none"
             /\ last.responses[fin].part = "Fin"
             /\ last.responses[fin].error = "ok"
             /\ RepliesCarryId(last.handler) =>
                    last.responses[fin].block = Head(blocks)
             /\ ServesFrom(fin + 1, Tail(blocks))

C40_MissingRootIndex ==
    /\ (last.op = "load" /\ last.storage.root = None) =>
           /\ last.trie.root = NoNode
           /\ last.trie.leaves = <<>>
           /\ commit(last.trie).root = TRIE_ZERO
           /\ \A key \in TrieKeys : leaf(last.trie.storage, key) = None
    /\ (last.op = "get_proof" /\ last.storage.root = None) =>
           \A key \in TrieKeys : get_proof(last.storage, key) = <<>> /\ last.proof = <<>>
    /\ \A storage \in {EmptyStorage, last.storage} :
           /\ empty(storage).root = NoNode
           /\ \A key \in TrieKeys : leaf(empty(storage).storage, key) = None

\* The contract trie is loaded at a block whose root index was purged while
\* its nodes and its storage values are still there.
C40_Witness ==
    /\ last.op = "load"
    /\ last.family = "tree_contracts"
    /\ last.storage.root = None
    /\ last.storage.nodes # {}
    /\ DOMAIN last.storage.values # {}
    /\ last.trie.root = NoNode

====
